---- MODULE Spec2Model ----
(***************************************************************************)
(* IAM access control system: the relational store (five entity tables and *)
(* three association tables of database/setup.js), the permission resolver *)
(* of middleware/auth.js and the request handlers of routes/*.js.          *)
(*                                                                         *)
(* One step of Spec is one HTTP request handled from its first middleware  *)
(* to its response, with no other request in between.                     *)
(***************************************************************************)
EXTENDS Integers, Sequences, FiniteSets, TLC

(* ------------------------------------------------------------------ *)
(* Bounds of the model                                                 *)
(* ------------------------------------------------------------------ *)
\* number of requests the server handles in one run
MaxRequests == 3
\* highest user id the users table hands out
MaxUsers == 3
\* highest group id
MaxGroups == 2
\* highest role id
MaxRoles == 2
\* highest module id (the seed takes 1..5)
MaxModules == 6
\* highest permission id (the seed takes 1..20)
MaxPermissions == 24
\* longest id list of a link / unlink request
MaxIds == 2

(* ------------------------------------------------------------------ *)
(* State                                                               *)
(* ------------------------------------------------------------------ *)
VARIABLES
  users,            \* id -> [username, email]          (table users)
  groups,           \* id -> [name]                     (table groups)
  roles,            \* id -> [name]                     (table roles)
  modules,          \* id -> [name]                     (table modules)
  permissions,      \* id -> [action, module_id]        (table permissions)
  user_groups,      \* set of <<user_id, group_id>>     (UNIQUE(user_id, group_id))
  group_roles,      \* set of <<group_id, role_id>>     (UNIQUE(group_id, role_id))
  role_permissions, \* set of <<role_id, permission_id>>(UNIQUE(role_id, permission_id))
  sqlite_sequence,  \* table name -> largest id ever handed out (AUTOINCREMENT)
  foreign_keys,     \* whether the connection enforces FOREIGN KEY clauses
  served,           \* number of requests handled so far
  req,              \* the request being answered (none between two requests)
  res,              \* its response
  calls,            \* the requests whose handlers run statement by statement
  boot              \* the process: how far initializeDatabase and startServer got

tables == <<users, groups, roles, modules, permissions,
            user_groups, group_roles, role_permissions, sqlite_sequence>>

vars == <<users, groups, roles, modules, permissions,
          user_groups, group_roles, role_permissions, sqlite_sequence,
          foreign_keys, served, req, res, calls, boot>>

(* ------------------------------------------------------------------ *)
(* Small helpers                                                       *)
(* ------------------------------------------------------------------ *)
Range(s) == {s[i] : i \in DOMAIN s}

\* f with key k removed
Without(f, k) == [x \in (DOMAIN f) \ {k} |-> f[x]]

\* f with key k (re)bound to v
With(f, k, v) == [x \in (DOMAIN f) \cup {k} |-> IF x = k THEN v ELSE f[x]]

\* all sequences over S of length 0..n
SeqsUpTo(S, n) == UNION {[1..k -> S] : k \in 0..n}

\* the value standing for an absent optional body field
None == "<none>"

(* ------------------------------------------------------------------ *)
(* Seed data (database/setup.js, seedDatabase)                         *)
(* ------------------------------------------------------------------ *)
seedModules == <<"Users", "Groups", "Roles", "Modules", "Permissions">>

actions == <<"create", "read", "update", "delete">>

validActions == Range(actions)

\* permStmt.run(action, module.id) for each module row, for each action
seedPermissions ==
  [p \in 1..(Len(seedModules) * Len(actions)) |->
     [action    |-> actions[((p - 1) % Len(actions)) + 1],
      module_id |-> ((p - 1) \div Len(actions)) + 1]]

adminRoleId == 1
adminGroupId == 1
adminUserId == 1

seedDatabase ==
  /\ modules = [m \in 1..Len(seedModules) |-> [name |-> seedModules[m]]]
  /\ permissions = seedPermissions
  /\ roles = [r \in {adminRoleId} |-> [name |-> "Admin"]]
  /\ role_permissions = {<<adminRoleId, p>> : p \in DOMAIN seedPermissions}
  /\ groups = [g \in {adminGroupId} |-> [name |-> "Administrators"]]
  /\ group_roles = {<<adminGroupId, adminRoleId>>}
  /\ users = [u \in {adminUserId} |->
                [username |-> "admin", email |-> "joydaven@gmail.com"]]
  /\ user_groups = {<<adminUserId, adminGroupId>>}
  /\ sqlite_sequence = [users |-> 1, groups |-> 1, roles |-> 1,
                        modules |-> Len(seedModules),
                        permissions |-> Len(seedModules) * Len(actions)]

(* ------------------------------------------------------------------ *)
(* Permission resolver (middleware/auth.js)                            *)
(* ------------------------------------------------------------------ *)
\* the rows of
\*   user_groups ug JOIN group_roles gr ON ug.group_id = gr.group_id
\*   JOIN role_permissions rp ON gr.role_id = rp.role_id
\*   JOIN permissions p ON rp.permission_id = p.id
\*   JOIN modules m ON p.module_id = m.id   WHERE ug.user_id = userId
\* each row given as <<ug, gr, rp>> (p and m are determined by rp)
permissionJoin(userId) ==
  UNION { UNION { { <<ug, gr, rp>> :
                      rp \in { x \in role_permissions :
                                 /\ x[1] = gr[2]
                                 /\ x[2] \in DOMAIN permissions
                                 /\ permissions[x[2]].module_id \in DOMAIN modules } } :
                  gr \in { y \in group_roles : y[1] = ug[2] } } :
          ug \in { z \in user_groups : z[1] = userId } }

rowAction(row) == permissions[row[3][2]].action
rowModule(row) == modules[permissions[row[3][2]].module_id].name

\* module names with their letters folded to lower case
lowerCase(name) ==
  CASE name = "Users" -> "users"
    [] name = "Groups" -> "groups"
    [] name = "Roles" -> "roles"
    [] name = "Modules" -> "modules"
    [] name = "Permissions" -> "permissions"
    [] name = "Billing" -> "billing"
    [] OTHER -> name

\* permissionCount comparing m.name without regard to case (COLLATE NOCASE)
permissionCountNoCase(userId, module, action) ==
  Cardinality({ row \in permissionJoin(userId) :
                  /\ lowerCase(rowModule(row)) = lowerCase(module)
                  /\ rowAction(row) = action })

\* permissionCount with the condition p.action = ? left out of the query
permissionCountAnyAction(userId, module, action) ==
  Cardinality({ row \in permissionJoin(userId) : rowModule(row) = module })

\* SELECT COUNT(*) ... WHERE ug.user_id = ? AND m.name = ? AND p.action = ?
permissionCount(userId, module, action) ==
  Cardinality({ row \in permissionJoin(userId) :
                  rowModule(row) = module /\ rowAction(row) = action })

\* checkPermission(module, action) lets the request through (calls next())
checkPermission(userId, module, action) ==
  ~ (permissionCount(userId, module, action) = 0)

\* ORDER BY p.action: the order in which one module's actions are pushed
actionOrder == <<"create", "delete", "read", "update">>

\* getUserPermissions with an entry for every module of the store, also
\* those the user holds nothing on
getUserPermissionsAllModules(userId) ==
  LET rows == { <<rowModule(row), rowAction(row)>> : row \in permissionJoin(userId) }
  IN  [ m \in { modules[x].name : x \in DOMAIN modules } |->
          SelectSeq(actionOrder, LAMBDA a : <<m, a>> \in rows) ]

\* getUserPermissions: module name -> list of actions, built from the
\* DISTINCT (m.name, p.action) rows ordered by m.name, p.action
getUserPermissions(userId) ==
  LET rows == { <<rowModule(row), rowAction(row)>> : row \in permissionJoin(userId) }
  IN  [ m \in { r[1] : r \in rows } |->
          SelectSeq(actionOrder, LAMBDA a : <<m, a>> \in rows) ]

(* ------------------------------------------------------------------ *)
(* Requests, responses and input validation                            *)
(* ------------------------------------------------------------------ *)
\* the id field of a request on a route without :id
NoId == -1

\* the body of a request on a route that reads none
NoBody == [none |-> TRUE]

Request(route, caller, id, body) ==
  [route |-> route, caller |-> caller, id |-> id, body |-> body]

\* data: the ids of the entities the response describes ({} when it carries none)
Response(status, error, data) ==
  [status |-> status, error |-> error, data |-> data]

\* the server process after startServer: initializeDatabase resolved and
\* app.listen was called.  created: the CREATE TABLE statements run so far;
\* pc: the seed statement that runs next; i: the index of the next run of a
\* prepared statement; rows: the rows of the last SELECT; role, group, user:
\* this.lastID of the admin role, group and user (0 before their INSERT)
listening ==
  [script |-> FALSE, process |-> "listening", code |-> 0, pc |-> "resolved",
   created |-> 8, i |-> 1, rows |-> <<>>, role |-> adminRoleId,
   group |-> adminGroupId, user |-> adminUserId]

\* res.json(r) for request q
Send(q, r) ==
  /\ req' = q
  /\ res' = r
  /\ served' = served + 1
  /\ calls' = calls
  /\ boot' = boot

Reply(q, status, error, data) == Send(q, Response(status, error, data))

\* res.status(403).json({ error: `Permission denied: ${action} on ${module}` })
Forbidden(q) ==
  /\ Reply(q, 403, "Permission denied", {})
  /\ UNCHANGED <<tables, foreign_keys>>

\* a response that leaves the store as it is
Answer(q, status, error, data) ==
  /\ Reply(q, status, error, data)
  /\ UNCHANGED <<tables, foreign_keys>>

\* validateId: parseInt(req.params.id) must be a positive number
validateId(id) == id > 0

\* schemas.assignUsers / assignRoles / assignPermissions:
\* Joi.array().items(Joi.number().integer().positive()).min(1).required()
validateIds(ids) == Len(ids) >= 1 /\ \A i \in DOMAIN ids : ids[i] > 0

\* authenticateToken accepts every token generateToken issued in the last
\* 24h: register and login hand one out for every user id that ever existed
tokenHolders == 1..sqlite_sequence.users

(* ------------------------------------------------------------------ *)
(* Store statements                                                    *)
(* ------------------------------------------------------------------ *)
\* ON DELETE CASCADE of an association table: the rows whose column col
\* references a deleted parent go with it when foreign keys are enforced
cascade(tbl, col, deleted) ==
  IF foreign_keys THEN {x \in tbl : x[col] \notin deleted} ELSE tbl

\* permissions.module_id REFERENCES modules (id) ON DELETE CASCADE
cascadePermissions(deleted) ==
  IF foreign_keys
  THEN [p \in {x \in DOMAIN permissions : permissions[x].module_id \notin deleted}
          |-> permissions[p]]
  ELSE permissions

\* INTEGER PRIMARY KEY without AUTOINCREMENT: one more than the largest id
\* now in the table, so the id of a deleted last row is handed out again
lastIDReused(tbl) ==
  LET ids == CASE tbl = "users" -> DOMAIN users
               [] tbl = "groups" -> DOMAIN groups
               [] tbl = "roles" -> DOMAIN roles
               [] tbl = "modules" -> DOMAIN modules
               [] OTHER -> DOMAIN permissions
  IN  IF ids = {} THEN 1 ELSE (CHOOSE x \in ids : \A y \in ids : y <= x) + 1

\* INTEGER PRIMARY KEY AUTOINCREMENT: one more than the largest id ever used
lastID(tbl) == sqlite_sequence[tbl] + 1

\* DELETE FROM <association> WHERE <owner column> = owner AND <other> IN (ids)
deleteLinks(tbl, ownerCol, owner, ids) ==
  {x \in tbl : ~ (x[ownerCol] = owner /\ x[3 - ownerCol] \in Range(ids))}

\* the row a link request inserts for counterpart c
linkRow(ownerCol, owner, c) ==
  IF ownerCol = 1 THEN <<owner, c>> ELSE <<c, owner>>

\* stmt.run for ids[i..]: each INSERT fails on the UNIQUE pair constraint
\* when the pair is already there; the other inserts still run.
\* Result: [tbl, failed]
RECURSIVE insertLinks(_, _, _, _, _, _)
insertLinks(tbl, ownerCol, owner, ids, i, failed) ==
  IF i > Len(ids) THEN [tbl |-> tbl, failed |-> failed]
  ELSE LET row == linkRow(ownerCol, owner, ids[i])
       IN  IF row \in tbl
           THEN insertLinks(tbl, ownerCol, owner, ids, i + 1, TRUE)
           ELSE insertLinks(tbl \cup {row}, ownerCol, owner, ids, i + 1, failed)

\* SELECT id FROM <table> WHERE id IN (ids): the matching rows
selectIn(tbl, ids) == {x \in DOMAIN tbl : x \in Range(ids)}

\* assign with the DELETE of the existing rows moved before the check that
\* all counterparts exist
assignClearFirst(tbl, ownerCol, owner, counterparts, ids, what) ==
  LET cleared == deleteLinks(tbl, ownerCol, owner, ids)
      done    == insertLinks(cleared, ownerCol, owner, ids, 1, FALSE)
  IN  IF Cardinality(selectIn(counterparts, ids)) # Len(ids)
      THEN [tbl |-> cleared, status |-> 400,
            error |-> "One or more " \o what \o " not found"]
      ELSE IF done.failed
      THEN [tbl |-> done.tbl, status |-> 500, error |-> "Failed to assign " \o what]
      ELSE [tbl |-> done.tbl, status |-> 200, error |-> ""]

\* assign whose inserts skip the pairs that were linked before the call
assignToggle(tbl, ownerCol, owner, counterparts, ids, what) ==
  IF Cardinality(selectIn(counterparts, ids)) # Len(ids)
  THEN [tbl |-> tbl, status |-> 400, error |-> "One or more " \o what \o " not found"]
  ELSE LET cleared == deleteLinks(tbl, ownerCol, owner, ids)
           fresh   == {linkRow(ownerCol, owner, ids[i]) : i \in DOMAIN ids} \ tbl
       IN  [tbl |-> cleared \cup fresh, status |-> 200, error |-> ""]

\* assign without the DELETE of the existing rows
assignNoClear(tbl, ownerCol, owner, counterparts, ids, what) ==
  IF Cardinality(selectIn(counterparts, ids)) # Len(ids)
  THEN [tbl |-> tbl, status |-> 400, error |-> "One or more " \o what \o " not found"]
  ELSE LET done == insertLinks(tbl, ownerCol, owner, ids, 1, FALSE)
       IN  IF done.failed
           THEN [tbl |-> done.tbl, status |-> 500,
                 error |-> "Failed to assign " \o what]
           ELSE [tbl |-> done.tbl, status |-> 200, error |-> ""]

\* the clear-then-insert body shared by the three assign handlers, after
\* the owner was found.  Result: [tbl, status, error]
assign(tbl, ownerCol, owner, counterparts, ids, what) ==
  IF Cardinality(selectIn(counterparts, ids)) # Len(ids)
  THEN [tbl |-> tbl, status |-> 400, error |-> "One or more " \o what \o " not found"]
  ELSE LET cleared == deleteLinks(tbl, ownerCol, owner, ids)
           done    == insertLinks(cleared, ownerCol, owner, ids, 1, FALSE)
       IN  IF done.failed
           THEN [tbl |-> done.tbl, status |-> 500,
                 error |-> "Failed to assign " \o what]
           ELSE [tbl |-> done.tbl, status |-> 200, error |-> ""]

(* ------------------------------------------------------------------ *)
(* Request inputs                                                      *)
(* ------------------------------------------------------------------ *)
Usernames == {"admin", "alice"}
Emails == {"joydaven@gmail.com", "alice@example.com"}
GroupNames == {"Administrators", "Finance"}
RoleNames == {"Admin", "Biller"}
ModuleNames == {"Permissions", "permissions", "Billing"}

UserIds == 0..MaxUsers
GroupIds == 0..MaxGroups
RoleIds == 0..MaxRoles
ModuleIds == 0..MaxModules
PermissionIds == {0, 4, 7, 21}

UserIdLists == SeqsUpTo(UserIds, MaxIds)
RoleIdLists == SeqsUpTo(RoleIds, MaxIds)
PermissionIdLists == SeqsUpTo(PermissionIds, MaxIds)

\* the action of a permission body: the four verbs and one that is none of them
ActionInputs == validActions \cup {"execute"}

(* ------------------------------------------------------------------ *)
(* routes/users.js                                                     *)
(* ------------------------------------------------------------------ *)
\* GET /users
GetUsers(caller) ==
  LET q == Request("GET /users", caller, NoId, NoBody)
  IN  IF ~ checkPermission(caller, "Users", "read") THEN Forbidden(q)
      ELSE Answer(q, 200, "", DOMAIN users)

\* GET /users/:id with validateId and the lookup before checkPermission
GetUserLooksUpFirst(caller, id) ==
  LET q == Request("GET /users/:id", caller, id, NoBody)
  IN  IF ~ validateId(id) THEN Answer(q, 400, "Invalid ID parameter", {})
      ELSE IF id \notin DOMAIN users THEN Answer(q, 404, "User not found", {})
      ELSE IF ~ checkPermission(caller, "Users", "read") THEN Forbidden(q)
      ELSE Answer(q, 200, "", {id})

\* GET /users/:id
GetUser(caller, id) ==
  LET q == Request("GET /users/:id", caller, id, NoBody)
  IN  IF ~ checkPermission(caller, "Users", "read") THEN Forbidden(q)
      ELSE IF ~ validateId(id) THEN Answer(q, 400, "Invalid ID parameter", {})
      ELSE IF id \notin DOMAIN users THEN Answer(q, 404, "User not found", {})
      ELSE Answer(q, 200, "", {id})

\* SELECT id FROM users WHERE username = ? OR email = ?
existingUser(username, email) ==
  \E u \in DOMAIN users : users[u].username = username \/ users[u].email = email

\* INSERT INTO users (username, email, password_hash), answered with 201
insertUser(q, username, email) ==
  /\ users' = With(users, lastID("users"), [username |-> username, email |-> email])
  /\ sqlite_sequence' = [sqlite_sequence EXCEPT !.users = lastID("users")]
  /\ Reply(q, 201, "", {lastID("users")})
  /\ UNCHANGED <<groups, roles, modules, permissions,
                 user_groups, group_roles, role_permissions, foreign_keys>>

\* POST /users
CreateUser(caller, username, email) ==
  LET q == Request("POST /users", caller, NoId,
                   [username |-> username, email |-> email])
  IN  IF ~ checkPermission(caller, "Users", "create") THEN Forbidden(q)
      ELSE IF existingUser(username, email)
      THEN Answer(q, 400, "Username or email already exists", {})
      ELSE /\ lastID("users") <= MaxUsers
           /\ insertUser(q, username, email)

\* PUT /users/:id   (username, email: None when the body leaves them out;
\* password: whether the body carries one)
UpdateUser(caller, id, username, email, password) ==
  LET q == Request("PUT /users/:id", caller, id,
                   [username |-> username, email |-> email, password |-> password])
      newUsername == IF username # None THEN username ELSE users[id].username
      newEmail    == IF email # None THEN email ELSE users[id].email
  IN  IF ~ checkPermission(caller, "Users", "update") THEN Forbidden(q)
      ELSE IF ~ validateId(id) THEN Answer(q, 400, "Invalid ID parameter", {})
      ELSE IF id \notin DOMAIN users THEN Answer(q, 404, "User not found", {})
      ELSE IF /\ username # None
              /\ \E u \in DOMAIN users : users[u].username = username /\ u # id
      THEN Answer(q, 400, "Username already exists", {})
      ELSE IF /\ email # None
              /\ \E u \in DOMAIN users : users[u].email = email /\ u # id
      THEN Answer(q, 400, "Email already exists", {})
      ELSE IF username = None /\ email = None /\ ~ password
      THEN Answer(q, 400, "No valid fields to update", {})
      ELSE /\ users' = [users EXCEPT ![id] = [username |-> newUsername,
                                              email |-> newEmail]]
           /\ Reply(q, 200, "", {})
           /\ UNCHANGED <<groups, roles, modules, permissions, user_groups,
                          group_roles, role_permissions, sqlite_sequence,
                          foreign_keys>>

\* DELETE /users/:id without the check userId == req.user.id
DeleteUserNoSelfCheck(caller, id) ==
  LET q == Request("DELETE /users/:id", caller, id, NoBody)
  IN  IF ~ checkPermission(caller, "Users", "delete") THEN Forbidden(q)
      ELSE IF ~ validateId(id) THEN Answer(q, 400, "Invalid ID parameter", {})
      ELSE IF id \notin DOMAIN users THEN Answer(q, 404, "User not found", {})
      ELSE /\ users' = Without(users, id)
           /\ user_groups' = cascade(user_groups, 1, {id})
           /\ Reply(q, 200, "", {})
           /\ UNCHANGED <<groups, roles, modules, permissions,
                          group_roles, role_permissions, sqlite_sequence,
                          foreign_keys>>

\* DELETE /users/:id without the checkPermission middleware
DeleteUserUngated(caller, id) ==
  LET q == Request("DELETE /users/:id", caller, id, NoBody)
  IN  IF ~ validateId(id) THEN Answer(q, 400, "Invalid ID parameter", {})
      ELSE IF id \notin DOMAIN users THEN Answer(q, 404, "User not found", {})
      ELSE IF id = caller
      THEN Answer(q, 400, "Cannot delete your own account", {})
      ELSE /\ users' = Without(users, id)
           /\ user_groups' = cascade(user_groups, 1, {id})
           /\ Reply(q, 200, "", {})
           /\ UNCHANGED <<groups, roles, modules, permissions,
                          group_roles, role_permissions, sqlite_sequence,
                          foreign_keys>>

\* DELETE /users/:id
DeleteUser(caller, id) ==
  LET q == Request("DELETE /users/:id", caller, id, NoBody)
  IN  IF ~ checkPermission(caller, "Users", "delete") THEN Forbidden(q)
      ELSE IF ~ validateId(id) THEN Answer(q, 400, "Invalid ID parameter", {})
      ELSE IF id \notin DOMAIN users THEN Answer(q, 404, "User not found", {})
      ELSE IF id = caller
      THEN Answer(q, 400, "Cannot delete your own account", {})
      ELSE /\ users' = Without(users, id)
           /\ user_groups' = cascade(user_groups, 1, {id})
           /\ Reply(q, 200, "", {})
           /\ UNCHANGED <<groups, roles, modules, permissions,
                          group_roles, role_permissions, sqlite_sequence,
                          foreign_keys>>

(* ------------------------------------------------------------------ *)
(* routes/auth.js                                                      *)
(* ------------------------------------------------------------------ *)
\* the caller field of a request that carries no token
Anonymous == 0

\* POST /register
Register(username, email) ==
  LET q == Request("POST /register", Anonymous, NoId,
                   [username |-> username, email |-> email])
  IN  IF existingUser(username, email)
      THEN Answer(q, 400, "Username or email already exists", {})
      ELSE /\ lastID("users") <= MaxUsers
           /\ insertUser(q, username, email)

\* GET /me/permissions: the response carries getUserPermissions(req.user.id)
MePermissions(caller) ==
  LET q == Request("GET /me/permissions", caller, NoId, NoBody)
  IN  /\ Send(q, [status |-> 200, error |-> "", data |-> {}, permissions |-> getUserPermissions(caller)])
      /\ UNCHANGED <<tables, foreign_keys>>

\* POST /simulate-action with a query that compares m.name without regard to case
SimulateActionNoCase(caller, userId, module, action) ==
  LET q == Request("POST /simulate-action", caller, NoId,
                   [userId |-> userId, module |-> module, action |-> action])
      hasPermission == permissionCountNoCase(userId, module, action) > 0
  IN  /\ Send(q, [status |-> 200, error |-> "", data |-> {}, hasPermission |-> hasPermission])
      /\ UNCHANGED <<tables, foreign_keys>>

\* the answer of POST /simulate-action: hasPermission = row.count > 0 of
\* db.get(query, [userId, module, action])
simulateResponse(userId, module, action) ==
  [status |-> 200, error |-> "", data |-> {},
   hasPermission |-> permissionCount(userId, module, action) > 0]

\* POST /simulate-action
SimulateAction(caller, userId, module, action) ==
  LET q == Request("POST /simulate-action", caller, NoId,
                   [userId |-> userId, module |-> module, action |-> action])
  IN  /\ Send(q, simulateResponse(userId, module, action))
      /\ UNCHANGED <<tables, foreign_keys>>

(* ------------------------------------------------------------------ *)
(* routes/groups.js                                                    *)
(* ------------------------------------------------------------------ *)
\* GET /groups
GetGroups(caller) ==
  LET q == Request("GET /groups", caller, NoId, NoBody)
  IN  IF ~ checkPermission(caller, "Groups", "read") THEN Forbidden(q)
      ELSE Answer(q, 200, "", DOMAIN groups)

\* GET /groups/:id
GetGroup(caller, id) ==
  LET q == Request("GET /groups/:id", caller, id, NoBody)
  IN  IF ~ checkPermission(caller, "Groups", "read") THEN Forbidden(q)
      ELSE IF ~ validateId(id) THEN Answer(q, 400, "Invalid ID parameter", {})
      ELSE IF id \notin DOMAIN groups THEN Answer(q, 404, "Group not found", {})
      ELSE Answer(q, 200, "", {id})

\* POST /groups
CreateGroup(caller, name) ==
  LET q == Request("POST /groups", caller, NoId, [name |-> name])
  IN  IF ~ checkPermission(caller, "Groups", "create") THEN Forbidden(q)
      ELSE IF \E g \in DOMAIN groups : groups[g].name = name
      THEN Answer(q, 400, "Group name already exists", {})
      ELSE /\ lastID("groups") <= MaxGroups
           /\ groups' = With(groups, lastID("groups"), [name |-> name])
           /\ sqlite_sequence' = [sqlite_sequence EXCEPT !.groups = lastID("groups")]
           /\ Reply(q, 201, "", {lastID("groups")})
           /\ UNCHANGED <<users, roles, modules, permissions, user_groups,
                          group_roles, role_permissions, foreign_keys>>

\* PUT /groups/:id
UpdateGroup(caller, id, name) ==
  LET q == Request("PUT /groups/:id", caller, id, [name |-> name])
  IN  IF ~ checkPermission(caller, "Groups", "update") THEN Forbidden(q)
      ELSE IF ~ validateId(id) THEN Answer(q, 400, "Invalid ID parameter", {})
      ELSE IF id \notin DOMAIN groups THEN Answer(q, 404, "Group not found", {})
      ELSE IF \E g \in DOMAIN groups : groups[g].name = name /\ g # id
      THEN Answer(q, 400, "Group name already exists", {})
      ELSE /\ groups' = [groups EXCEPT ![id] = [name |-> name]]
           /\ Reply(q, 200, "", {})
           /\ UNCHANGED <<users, roles, modules, permissions, user_groups,
                          group_roles, role_permissions, sqlite_sequence,
                          foreign_keys>>

\* DELETE /groups/:id
DeleteGroup(caller, id) ==
  LET q == Request("DELETE /groups/:id", caller, id, NoBody)
  IN  IF ~ checkPermission(caller, "Groups", "delete") THEN Forbidden(q)
      ELSE IF ~ validateId(id) THEN Answer(q, 400, "Invalid ID parameter", {})
      ELSE IF id \notin DOMAIN groups THEN Answer(q, 404, "Group not found", {})
      ELSE /\ groups' = Without(groups, id)
           /\ user_groups' = cascade(user_groups, 2, {id})
           /\ group_roles' = cascade(group_roles, 1, {id})
           /\ Reply(q, 200, "", {})
           /\ UNCHANGED <<users, roles, modules, permissions,
                          role_permissions, sqlite_sequence, foreign_keys>>

\* POST /groups/:id/users
AssignUsers(caller, id, userIds) ==
  LET q == Request("POST /groups/:id/users", caller, id, [ids |-> userIds])
      r == assign(user_groups, 2, id, users, userIds, "users")
  IN  IF ~ checkPermission(caller, "Groups", "update") THEN Forbidden(q)
      ELSE IF ~ validateId(id) THEN Answer(q, 400, "Invalid ID parameter", {})
      ELSE IF ~ validateIds(userIds) THEN Answer(q, 400, "Validation failed", {})
      ELSE IF id \notin DOMAIN groups THEN Answer(q, 404, "Group not found", {})
      ELSE /\ user_groups' = r.tbl
           /\ Reply(q, r.status, r.error, {})
           /\ UNCHANGED <<users, groups, roles, modules, permissions,
                          group_roles, role_permissions, sqlite_sequence,
                          foreign_keys>>

\* DELETE /groups/:id/users reporting the number of ids asked for as removedCount
RemoveUsersCountsRequested(caller, id, userIds) ==
  LET q == Request("DELETE /groups/:id/users", caller, id, [ids |-> userIds])
      kept == deleteLinks(user_groups, 2, id, userIds)
  IN  IF ~ checkPermission(caller, "Groups", "update") THEN Forbidden(q)
      ELSE IF ~ validateId(id) THEN Answer(q, 400, "Invalid ID parameter", {})
      ELSE IF ~ validateIds(userIds) THEN Answer(q, 400, "Validation failed", {})
      ELSE IF id \notin DOMAIN groups THEN Answer(q, 404, "Group not found", {})
      ELSE /\ user_groups' = kept
           /\ Send(q, [status |-> 200, error |-> "", data |-> {}, removedCount |-> Len(userIds)])
           /\ UNCHANGED <<users, groups, roles, modules, permissions,
                          group_roles, role_permissions, sqlite_sequence,
                          foreign_keys>>

\* DELETE /groups/:id/users   (removedCount: this.changes)
RemoveUsers(caller, id, userIds) ==
  LET q == Request("DELETE /groups/:id/users", caller, id, [ids |-> userIds])
      kept == deleteLinks(user_groups, 2, id, userIds)
  IN  IF ~ checkPermission(caller, "Groups", "update") THEN Forbidden(q)
      ELSE IF ~ validateId(id) THEN Answer(q, 400, "Invalid ID parameter", {})
      ELSE IF ~ validateIds(userIds) THEN Answer(q, 400, "Validation failed", {})
      ELSE IF id \notin DOMAIN groups THEN Answer(q, 404, "Group not found", {})
      ELSE /\ user_groups' = kept
           /\ Send(q, [status |-> 200, error |-> "", data |-> {}, removedCount |-> Cardinality(user_groups \ kept)])
           /\ UNCHANGED <<users, groups, roles, modules, permissions,
                          group_roles, role_permissions, sqlite_sequence,
                          foreign_keys>>

\* POST /groups/:id/roles
AssignRoles(caller, id, roleIds) ==
  LET q == Request("POST /groups/:id/roles", caller, id, [ids |-> roleIds])
      r == assign(group_roles, 1, id, roles, roleIds, "roles")
  IN  IF ~ checkPermission(caller, "Groups", "update") THEN Forbidden(q)
      ELSE IF ~ validateId(id) THEN Answer(q, 400, "Invalid ID parameter", {})
      ELSE IF ~ validateIds(roleIds) THEN Answer(q, 400, "Validation failed", {})
      ELSE IF id \notin DOMAIN groups THEN Answer(q, 404, "Group not found", {})
      ELSE /\ group_roles' = r.tbl
           /\ Reply(q, r.status, r.error, {})
           /\ UNCHANGED <<users, groups, roles, modules, permissions,
                          user_groups, role_permissions, sqlite_sequence,
                          foreign_keys>>

\* DELETE /groups/:id/roles
RemoveRoles(caller, id, roleIds) ==
  LET q == Request("DELETE /groups/:id/roles", caller, id, [ids |-> roleIds])
      kept == deleteLinks(group_roles, 1, id, roleIds)
  IN  IF ~ checkPermission(caller, "Groups", "update") THEN Forbidden(q)
      ELSE IF ~ validateId(id) THEN Answer(q, 400, "Invalid ID parameter", {})
      ELSE IF ~ validateIds(roleIds) THEN Answer(q, 400, "Validation failed", {})
      ELSE IF id \notin DOMAIN groups THEN Answer(q, 404, "Group not found", {})
      ELSE /\ group_roles' = kept
           /\ Send(q, [status |-> 200, error |-> "", data |-> {}, removedCount |-> Cardinality(group_roles \ kept)])
           /\ UNCHANGED <<users, groups, roles, modules, permissions,
                          user_groups, role_permissions, sqlite_sequence,
                          foreign_keys>>

(* ------------------------------------------------------------------ *)
(* routes/roles.js                                                     *)
(* ------------------------------------------------------------------ *)
\* GET /roles
GetRoles(caller) ==
  LET q == Request("GET /roles", caller, NoId, NoBody)
  IN  IF ~ checkPermission(caller, "Roles", "read") THEN Forbidden(q)
      ELSE Answer(q, 200, "", DOMAIN roles)

\* GET /roles/:id
GetRole(caller, id) ==
  LET q == Request("GET /roles/:id", caller, id, NoBody)
  IN  IF ~ checkPermission(caller, "Roles", "read") THEN Forbidden(q)
      ELSE IF ~ validateId(id) THEN Answer(q, 400, "Invalid ID parameter", {})
      ELSE IF id \notin DOMAIN roles THEN Answer(q, 404, "Role not found", {})
      ELSE Answer(q, 200, "", {id})

\* POST /roles
CreateRole(caller, name) ==
  LET q == Request("POST /roles", caller, NoId, [name |-> name])
  IN  IF ~ checkPermission(caller, "Roles", "create") THEN Forbidden(q)
      ELSE IF \E r \in DOMAIN roles : roles[r].name = name
      THEN Answer(q, 400, "Role name already exists", {})
      ELSE /\ lastID("roles") <= MaxRoles
           /\ roles' = With(roles, lastID("roles"), [name |-> name])
           /\ sqlite_sequence' = [sqlite_sequence EXCEPT !.roles = lastID("roles")]
           /\ Reply(q, 201, "", {lastID("roles")})
           /\ UNCHANGED <<users, groups, modules, permissions, user_groups,
                          group_roles, role_permissions, foreign_keys>>

\* PUT /roles/:id
UpdateRole(caller, id, name) ==
  LET q == Request("PUT /roles/:id", caller, id, [name |-> name])
  IN  IF ~ checkPermission(caller, "Roles", "update") THEN Forbidden(q)
      ELSE IF ~ validateId(id) THEN Answer(q, 400, "Invalid ID parameter", {})
      ELSE IF id \notin DOMAIN roles THEN Answer(q, 404, "Role not found", {})
      ELSE IF \E r \in DOMAIN roles : roles[r].name = name /\ r # id
      THEN Answer(q, 400, "Role name already exists", {})
      ELSE /\ roles' = [roles EXCEPT ![id] = [name |-> name]]
           /\ Reply(q, 200, "", {})
           /\ UNCHANGED <<users, groups, modules, permissions, user_groups,
                          group_roles, role_permissions, sqlite_sequence,
                          foreign_keys>>

\* DELETE /roles/:id
DeleteRole(caller, id) ==
  LET q == Request("DELETE /roles/:id", caller, id, NoBody)
  IN  IF ~ checkPermission(caller, "Roles", "delete") THEN Forbidden(q)
      ELSE IF ~ validateId(id) THEN Answer(q, 400, "Invalid ID parameter", {})
      ELSE IF id \notin DOMAIN roles THEN Answer(q, 404, "Role not found", {})
      ELSE /\ roles' = Without(roles, id)
           /\ group_roles' = cascade(group_roles, 2, {id})
           /\ role_permissions' = cascade(role_permissions, 1, {id})
           /\ Reply(q, 200, "", {})
           /\ UNCHANGED <<users, groups, modules, permissions,
                          user_groups, sqlite_sequence, foreign_keys>>

\* POST /roles/:id/permissions
AssignPermissions(caller, id, permissionIds) ==
  LET q == Request("POST /roles/:id/permissions", caller, id, [ids |-> permissionIds])
      r == assign(role_permissions, 1, id, permissions, permissionIds, "permissions")
  IN  IF ~ checkPermission(caller, "Roles", "update") THEN Forbidden(q)
      ELSE IF ~ validateId(id) THEN Answer(q, 400, "Invalid ID parameter", {})
      ELSE IF ~ validateIds(permissionIds) THEN Answer(q, 400, "Validation failed", {})
      ELSE IF id \notin DOMAIN roles THEN Answer(q, 404, "Role not found", {})
      ELSE /\ role_permissions' = r.tbl
           /\ Reply(q, r.status, r.error, {})
           /\ UNCHANGED <<users, groups, roles, modules, permissions,
                          user_groups, group_roles, sqlite_sequence,
                          foreign_keys>>

\* DELETE /roles/:id/permissions
RemovePermissions(caller, id, permissionIds) ==
  LET q == Request("DELETE /roles/:id/permissions", caller, id, [ids |-> permissionIds])
      kept == deleteLinks(role_permissions, 1, id, permissionIds)
  IN  IF ~ checkPermission(caller, "Roles", "update") THEN Forbidden(q)
      ELSE IF ~ validateId(id) THEN Answer(q, 400, "Invalid ID parameter", {})
      ELSE IF ~ validateIds(permissionIds) THEN Answer(q, 400, "Validation failed", {})
      ELSE IF id \notin DOMAIN roles THEN Answer(q, 404, "Role not found", {})
      ELSE /\ role_permissions' = kept
           /\ Send(q, [status |-> 200, error |-> "", data |-> {}, removedCount |-> Cardinality(role_permissions \ kept)])
           /\ UNCHANGED <<users, groups, roles, modules, permissions,
                          user_groups, group_roles, sqlite_sequence,
                          foreign_keys>>

(* ------------------------------------------------------------------ *)
(* routes/modules.js                                                   *)
(* ------------------------------------------------------------------ *)
\* GET /modules
GetModules(caller) ==
  LET q == Request("GET /modules", caller, NoId, NoBody)
  IN  IF ~ checkPermission(caller, "Modules", "read") THEN Forbidden(q)
      ELSE Answer(q, 200, "", DOMAIN modules)

\* GET /modules/:id
GetModule(caller, id) ==
  LET q == Request("GET /modules/:id", caller, id, NoBody)
  IN  IF ~ checkPermission(caller, "Modules", "read") THEN Forbidden(q)
      ELSE IF ~ validateId(id) THEN Answer(q, 400, "Invalid ID parameter", {})
      ELSE IF id \notin DOMAIN modules THEN Answer(q, 404, "Module not found", {})
      ELSE Answer(q, 200, "", {id})

\* INSERT INTO permissions (action, module_id): fails on UNIQUE(action, module_id),
\* and on the module_id foreign key when foreign keys are enforced
canInsertPermission(perms, mods, action, module_id) ==
  /\ ~ \E p \in DOMAIN perms :
         perms[p].action = action /\ perms[p].module_id = module_id
  /\ foreign_keys => module_id \in DOMAIN mods

\* insertDefaultPermissions that stops before the last action
RECURSIVE insertDefaultPermissionsButLast(_, _, _, _, _)
insertDefaultPermissionsButLast(perms, seq, mods, moduleId, i) ==
  IF i > Len(actions) - 1 THEN [perms |-> perms, seq |-> seq]
  ELSE IF canInsertPermission(perms, mods, actions[i], moduleId)
  THEN insertDefaultPermissionsButLast(
         With(perms, seq + 1, [action |-> actions[i], module_id |-> moduleId]),
         seq + 1, mods, moduleId, i + 1)
  ELSE insertDefaultPermissionsButLast(perms, seq, mods, moduleId, i + 1)

\* the default permissions of a new module: stmt.run(action, moduleId) for
\* actions[i..], an insert that fails is skipped (its err is not looked at).
\* Result: [perms, seq]
RECURSIVE insertDefaultPermissions(_, _, _, _, _)
insertDefaultPermissions(perms, seq, mods, moduleId, i) ==
  IF i > Len(actions) THEN [perms |-> perms, seq |-> seq]
  ELSE IF canInsertPermission(perms, mods, actions[i], moduleId)
  THEN insertDefaultPermissions(
         With(perms, seq + 1, [action |-> actions[i], module_id |-> moduleId]),
         seq + 1, mods, moduleId, i + 1)
  ELSE insertDefaultPermissions(perms, seq, mods, moduleId, i + 1)

\* POST /modules
CreateModule(caller, name) ==
  LET q == Request("POST /modules", caller, NoId, [name |-> name])
      moduleId == lastID("modules")
      mods == With(modules, moduleId, [name |-> name])
      r == insertDefaultPermissions(permissions, sqlite_sequence.permissions,
                                    mods, moduleId, 1)
  IN  IF ~ checkPermission(caller, "Modules", "create") THEN Forbidden(q)
      ELSE IF \E m \in DOMAIN modules : modules[m].name = name
      THEN Answer(q, 400, "Module name already exists", {})
      ELSE /\ moduleId <= MaxModules
           /\ sqlite_sequence.permissions + Len(actions) <= MaxPermissions
           /\ modules' = mods
           /\ permissions' = r.perms
           /\ sqlite_sequence' = [sqlite_sequence EXCEPT !.modules = moduleId,
                                                         !.permissions = r.seq]
           /\ Reply(q, 201, "", {moduleId})
           /\ UNCHANGED <<users, groups, roles, user_groups, group_roles,
                          role_permissions, foreign_keys>>

\* PUT /modules/:id
UpdateModule(caller, id, name) ==
  LET q == Request("PUT /modules/:id", caller, id, [name |-> name])
  IN  IF ~ checkPermission(caller, "Modules", "update") THEN Forbidden(q)
      ELSE IF ~ validateId(id) THEN Answer(q, 400, "Invalid ID parameter", {})
      ELSE IF id \notin DOMAIN modules THEN Answer(q, 404, "Module not found", {})
      ELSE IF \E m \in DOMAIN modules : modules[m].name = name /\ m # id
      THEN Answer(q, 400, "Module name already exists", {})
      ELSE /\ modules' = [modules EXCEPT ![id] = [name |-> name]]
           /\ Reply(q, 200, "", {})
           /\ UNCHANGED <<users, groups, roles, permissions, user_groups,
                          group_roles, role_permissions, sqlite_sequence,
                          foreign_keys>>

\* DELETE /modules/:id
DeleteModule(caller, id) ==
  LET q == Request("DELETE /modules/:id", caller, id, NoBody)
      perms == cascadePermissions({id})
  IN  IF ~ checkPermission(caller, "Modules", "delete") THEN Forbidden(q)
      ELSE IF ~ validateId(id) THEN Answer(q, 400, "Invalid ID parameter", {})
      ELSE IF id \notin DOMAIN modules THEN Answer(q, 404, "Module not found", {})
      ELSE /\ modules' = Without(modules, id)
           /\ permissions' = perms
           /\ role_permissions' =
                cascade(role_permissions, 2, (DOMAIN permissions) \ (DOMAIN perms))
           /\ Reply(q, 200, "", {})
           /\ UNCHANGED <<users, groups, roles, user_groups, group_roles,
                          sqlite_sequence, foreign_keys>>

(* ------------------------------------------------------------------ *)
(* routes/permissions.js                                               *)
(* ------------------------------------------------------------------ *)
\* FROM permissions p JOIN modules m ON p.module_id = m.id
permissionsWithModule ==
  {p \in DOMAIN permissions : permissions[p].module_id \in DOMAIN modules}

\* GET /permissions
GetPermissions(caller) ==
  LET q == Request("GET /permissions", caller, NoId, NoBody)
  IN  IF ~ checkPermission(caller, "Permissions", "read") THEN Forbidden(q)
      ELSE Answer(q, 200, "", permissionsWithModule)

\* GET /permissions/by-module/grouped
GetPermissionsGrouped(caller) ==
  LET q == Request("GET /permissions/by-module/grouped", caller, NoId, NoBody)
  IN  IF ~ checkPermission(caller, "Permissions", "read") THEN Forbidden(q)
      ELSE Answer(q, 200, "", permissionsWithModule)

\* GET /permissions/:id
GetPermission(caller, id) ==
  LET q == Request("GET /permissions/:id", caller, id, NoBody)
  IN  IF ~ checkPermission(caller, "Permissions", "read") THEN Forbidden(q)
      ELSE IF ~ validateId(id) THEN Answer(q, 400, "Invalid ID parameter", {})
      ELSE IF id \notin permissionsWithModule
      THEN Answer(q, 404, "Permission not found", {})
      ELSE Answer(q, 200, "", {id})

\* POST /permissions
CreatePermission(caller, action, module_id) ==
  LET q == Request("POST /permissions", caller, NoId,
                   [action |-> action, module_id |-> module_id])
      id == lastID("permissions")
  IN  IF ~ checkPermission(caller, "Permissions", "create") THEN Forbidden(q)
      ELSE IF ~ (action \in validActions /\ module_id > 0)
      THEN Answer(q, 400, "Validation failed", {})
      ELSE IF module_id \notin DOMAIN modules
      THEN Answer(q, 400, "Module not found", {})
      ELSE IF \E p \in DOMAIN permissions :
                 permissions[p].action = action /\ permissions[p].module_id = module_id
      THEN Answer(q, 400, "Permission already exists for this module and action", {})
      ELSE /\ id <= MaxPermissions
           /\ permissions' = With(permissions, id,
                                  [action |-> action, module_id |-> module_id])
           /\ sqlite_sequence' = [sqlite_sequence EXCEPT !.permissions = id]
           /\ Reply(q, 201, "", {id})
           /\ UNCHANGED <<users, groups, roles, modules, user_groups,
                          group_roles, role_permissions, foreign_keys>>

\* PUT /permissions/:id   (only the action is updated)
UpdatePermission(caller, id, action) ==
  LET q == Request("PUT /permissions/:id", caller, id, [action |-> action])
  IN  IF ~ checkPermission(caller, "Permissions", "update") THEN Forbidden(q)
      ELSE IF ~ validateId(id) THEN Answer(q, 400, "Invalid ID parameter", {})
      ELSE IF action \notin validActions THEN Answer(q, 400, "Invalid action", {})
      ELSE IF id \notin DOMAIN permissions
      THEN Answer(q, 404, "Permission not found", {})
      ELSE IF \E p \in DOMAIN permissions :
                 /\ permissions[p].action = action
                 /\ permissions[p].module_id = permissions[id].module_id
                 /\ p # id
      THEN Answer(q, 400, "Permission with this action already exists for this module", {})
      ELSE /\ permissions' = [permissions EXCEPT ![id].action = action]
           /\ Reply(q, 200, "", {})
           /\ UNCHANGED <<users, groups, roles, modules, user_groups,
                          group_roles, role_permissions, sqlite_sequence,
                          foreign_keys>>

\* DELETE /permissions/:id
DeletePermission(caller, id) ==
  LET q == Request("DELETE /permissions/:id", caller, id, NoBody)
  IN  IF ~ checkPermission(caller, "Permissions", "delete") THEN Forbidden(q)
      ELSE IF ~ validateId(id) THEN Answer(q, 400, "Invalid ID parameter", {})
      ELSE IF id \notin DOMAIN permissions
      THEN Answer(q, 404, "Permission not found", {})
      ELSE /\ permissions' = Without(permissions, id)
           /\ role_permissions' = cascade(role_permissions, 2, {id})
           /\ Reply(q, 200, "", {})
           /\ UNCHANGED <<users, groups, roles, modules, user_groups,
                          group_roles, sqlite_sequence, foreign_keys>>

(* ------------------------------------------------------------------ *)
(* Specification                                                       *)
(* ------------------------------------------------------------------ *)
\* the state when startServer starts to listen: initializeDatabase has
\* resolved, nothing was requested yet.  database/setup.js opens the
\* connection and never sets PRAGMA foreign_keys, so whether the FOREIGN
\* KEY clauses are enforced is the default the SQLite library was built with.
NoRequest == Request("", Anonymous, NoId, NoBody)
NoResponse == Response(0, "", {})

Init ==
  /\ seedDatabase
  /\ foreign_keys \in BOOLEAN
  /\ served = 0
  /\ req = NoRequest
  /\ res = NoResponse
  /\ calls = <<>>
  /\ boot = listening

\* the response is written and the request is over: the server waits for
\* the next one
Finish ==
  /\ req # NoRequest
  /\ req' = NoRequest
  /\ res' = NoResponse
  /\ UNCHANGED <<tables, foreign_keys, served, calls, boot>>

\* a request is routed to its handler
Accept ==
  /\ req = NoRequest
  /\ served < MaxRequests

\* one action per route: any token holder may send any request
ReqGetUsers == Accept /\ \E caller \in tokenHolders : GetUsers(caller)

ReqGetUser == Accept /\ \E caller \in tokenHolders, id \in UserIds : GetUser(caller, id)

ReqCreateUser ==
  Accept /\ \E caller \in tokenHolders, u \in Usernames, e \in Emails :
              CreateUser(caller, u, e)

ReqUpdateUser ==
  Accept /\ \E caller \in tokenHolders, id \in UserIds, u \in Usernames \cup {None},
               e \in Emails \cup {None}, pw \in BOOLEAN :
              UpdateUser(caller, id, u, e, pw)

ReqDeleteUser ==
  Accept /\ \E caller \in tokenHolders, id \in UserIds : DeleteUser(caller, id)

ReqRegister == Accept /\ \E u \in Usernames, e \in Emails : Register(u, e)

ReqMePermissions == Accept /\ \E caller \in tokenHolders : MePermissions(caller)

ReqSimulateAction ==
  Accept /\ \E caller \in tokenHolders, userId \in 1..(MaxUsers + 1),
               m \in ModuleNames, a \in validActions :
              SimulateAction(caller, userId, m, a)

ReqGetGroups == Accept /\ \E caller \in tokenHolders : GetGroups(caller)

ReqGetGroup ==
  Accept /\ \E caller \in tokenHolders, id \in GroupIds : GetGroup(caller, id)

ReqCreateGroup ==
  Accept /\ \E caller \in tokenHolders, n \in GroupNames : CreateGroup(caller, n)

ReqUpdateGroup ==
  Accept /\ \E caller \in tokenHolders, id \in GroupIds, n \in GroupNames :
              UpdateGroup(caller, id, n)

ReqDeleteGroup ==
  Accept /\ \E caller \in tokenHolders, id \in GroupIds : DeleteGroup(caller, id)

ReqAssignUsers ==
  Accept /\ \E caller \in tokenHolders, id \in GroupIds, ids \in UserIdLists :
              AssignUsers(caller, id, ids)

ReqRemoveUsers ==
  Accept /\ \E caller \in tokenHolders, id \in GroupIds, ids \in UserIdLists :
              RemoveUsers(caller, id, ids)

ReqAssignRoles ==
  Accept /\ \E caller \in tokenHolders, id \in GroupIds, ids \in RoleIdLists :
              AssignRoles(caller, id, ids)

ReqRemoveRoles ==
  Accept /\ \E caller \in tokenHolders, id \in GroupIds, ids \in RoleIdLists :
              RemoveRoles(caller, id, ids)

ReqGetRoles == Accept /\ \E caller \in tokenHolders : GetRoles(caller)

ReqGetRole ==
  Accept /\ \E caller \in tokenHolders, id \in RoleIds : GetRole(caller, id)

ReqCreateRole ==
  Accept /\ \E caller \in tokenHolders, n \in RoleNames : CreateRole(caller, n)

ReqUpdateRole ==
  Accept /\ \E caller \in tokenHolders, id \in RoleIds, n \in RoleNames :
              UpdateRole(caller, id, n)

ReqDeleteRole ==
  Accept /\ \E caller \in tokenHolders, id \in RoleIds : DeleteRole(caller, id)

ReqAssignPermissions ==
  Accept /\ \E caller \in tokenHolders, id \in RoleIds, ids \in PermissionIdLists :
              AssignPermissions(caller, id, ids)

ReqRemovePermissions ==
  Accept /\ \E caller \in tokenHolders, id \in RoleIds, ids \in PermissionIdLists :
              RemovePermissions(caller, id, ids)

ReqGetModules == Accept /\ \E caller \in tokenHolders : GetModules(caller)

ReqGetModule ==
  Accept /\ \E caller \in tokenHolders, id \in ModuleIds : GetModule(caller, id)

ReqCreateModule ==
  Accept /\ \E caller \in tokenHolders, n \in ModuleNames : CreateModule(caller, n)

ReqUpdateModule ==
  Accept /\ \E caller \in tokenHolders, id \in ModuleIds, n \in ModuleNames :
              UpdateModule(caller, id, n)

ReqDeleteModule ==
  Accept /\ \E caller \in tokenHolders, id \in ModuleIds : DeleteModule(caller, id)

ReqGetPermissions == Accept /\ \E caller \in tokenHolders : GetPermissions(caller)

ReqGetPermissionsGrouped ==
  Accept /\ \E caller \in tokenHolders : GetPermissionsGrouped(caller)

ReqGetPermission ==
  Accept /\ \E caller \in tokenHolders, id \in PermissionIds : GetPermission(caller, id)

ReqCreatePermission ==
  Accept /\ \E caller \in tokenHolders, a \in ActionInputs, m \in ModuleIds :
              CreatePermission(caller, a, m)

ReqUpdatePermission ==
  Accept /\ \E caller \in tokenHolders, id \in PermissionIds, a \in ActionInputs :
              UpdatePermission(caller, id, a)

ReqDeletePermission ==
  Accept /\ \E caller \in tokenHolders, id \in PermissionIds : DeletePermission(caller, id)

Next ==
  \/ ReqGetUsers
  \/ ReqGetUser
  \/ ReqCreateUser
  \/ ReqUpdateUser
  \/ ReqDeleteUser
  \/ ReqRegister
  \/ ReqMePermissions
  \/ ReqSimulateAction
  \/ ReqGetGroups
  \/ ReqGetGroup
  \/ ReqCreateGroup
  \/ ReqUpdateGroup
  \/ ReqDeleteGroup
  \/ ReqAssignUsers
  \/ ReqRemoveUsers
  \/ ReqAssignRoles
  \/ ReqRemoveRoles
  \/ ReqGetRoles
  \/ ReqGetRole
  \/ ReqCreateRole
  \/ ReqUpdateRole
  \/ ReqDeleteRole
  \/ ReqAssignPermissions
  \/ ReqRemovePermissions
  \/ ReqGetModules
  \/ ReqGetModule
  \/ ReqCreateModule
  \/ ReqUpdateModule
  \/ ReqDeleteModule
  \/ ReqGetPermissions
  \/ ReqGetPermissionsGrouped
  \/ ReqGetPermission
  \/ ReqCreatePermission
  \/ ReqUpdatePermission
  \/ ReqDeletePermission
  \/ Finish

Spec == Init /\ [][Next]_vars

(* ------------------------------------------------------------------ *)
(* Vocabulary of the properties                                        *)
(* ------------------------------------------------------------------ *)
\* every user id a property speaks about: all ids the table can hand out
\* and one that it never does
AnyUser == 1..(MaxUsers + 1)

\* every module name a property speaks about
AnyModuleName == Range(seedModules) \cup ModuleNames

\* ids that were handed out and whose row is gone
deletedUsers == (1..sqlite_sequence.users) \ DOMAIN users
deletedGroups == (1..sqlite_sequence.groups) \ DOMAIN groups
deletedRoles == (1..sqlite_sequence.roles) \ DOMAIN roles
deletedModules == (1..sqlite_sequence.modules) \ DOMAIN modules

\* user U reaches role r through some group
reaches(U, r) ==
  \E g \in 1..MaxGroups : <<U, g>> \in user_groups /\ <<g, r>> \in group_roles

\* a path U -> g -> r -> p with p.action = A and p in a module named M
grantingPath(U, M, A) ==
  \E r \in 1..MaxRoles, p \in DOMAIN permissions :
    /\ reaches(U, r)
    /\ <<r, p>> \in role_permissions
    /\ permissions[p].action = A
    /\ \E m \in DOMAIN modules : m = permissions[p].module_id /\ modules[m].name = M

\* the last step answered a request on this route
answered(route) == req.route = route

\* the server is between two requests.  Finish leaves the tables alone, so
\* every store the server reaches is also reached in such a state: a
\* property of the store alone is stated there
betweenRequests == req = NoRequest

(* ------------------------------------------------------------------ *)
(* C1                                                                  *)
(* ------------------------------------------------------------------ *)
\* C1: in every reachable state, for every user id U, module name M and
\* action A, the permission check grants iff there are a membership row
\* (U,g), a group-role row (g,r) and a role-permission row (r,p) with
\* p.action = A and p in a module named exactly M; the answer of
\* simulate-action for its (userId, module, action) is that same verdict.
C1_CheckGrantsIffPath ==
  /\ betweenRequests =>
       \A U \in AnyUser, M \in AnyModuleName, A \in validActions :
         checkPermission(U, M, A) <=> grantingPath(U, M, A)
  /\ answered("POST /simulate-action") =>
       (res.hasPermission <=>
          grantingPath(req.body.userId, req.body.module, req.body.action))

\* simulate-action grants on the module name "permissions" to a user who is
\* denied the same action on "Permissions": the match is exact
C1_Witness ==
  /\ answered("POST /simulate-action")
  /\ res.hasPermission
  /\ req.body.module = "permissions"
  /\ ~ checkPermission(req.body.userId, "Permissions", req.body.action)

(* ------------------------------------------------------------------ *)
(* C2                                                                  *)
(* ------------------------------------------------------------------ *)
\* the actions of the permissions U holds on the module named M
heldActions(U, M) ==
  { permissions[p].action :
      p \in { x \in DOMAIN permissions :
                /\ \E r \in 1..MaxRoles : reaches(U, r) /\ <<r, x>> \in role_permissions
                /\ permissions[x].module_id \in DOMAIN modules
                /\ modules[permissions[x].module_id].name = M } }

\* map is the permission map of U
isPermissionMapOf(map, U) ==
  /\ DOMAIN map = {M \in AnyModuleName : heldActions(U, M) # {}}
  /\ \A M \in DOMAIN map :
       /\ Range(map[M]) = heldActions(U, M)
       /\ Len(map[M]) = Cardinality(heldActions(U, M))

\* C2: in every reachable state, getUserPermissions(U) maps each module name
\* to exactly the actions of the permissions U holds through its groups'
\* roles, each action once; a module with none is absent, and a user with no
\* permission (or an unknown id) gets the empty map.  GET /me/permissions
\* answers with the caller's map.
C2_PermissionMapIsUnion ==
  /\ betweenRequests =>
       \A U \in AnyUser :
         /\ isPermissionMapOf(getUserPermissions(U), U)
         /\ (\A M \in AnyModuleName, A \in validActions : ~ grantingPath(U, M, A))
              => DOMAIN getUserPermissions(U) = {}
  /\ answered("GET /me/permissions") =>
       /\ res.status = 200
       /\ isPermissionMapOf(res.permissions, req.caller)

\* a caller gets a map in which one module has lost an action and the
\* others are complete
C2_Witness ==
  /\ answered("GET /me/permissions")
  /\ "Users" \in DOMAIN res.permissions
  /\ Len(res.permissions["Users"]) = 3
  /\ "Groups" \in DOMAIN res.permissions
  /\ Len(res.permissions["Groups"]) = 4

(* ------------------------------------------------------------------ *)
(* C3                                                                  *)
(* ------------------------------------------------------------------ *)
\* the module and the action each route of the five entity routers stands for:
\* the router's module; POST create, GET read, PUT update, DELETE delete;
\* the assignment routes under /groups/:id and /roles/:id update their owner
routeGates ==
  { [route |-> "GET /users",          module |-> "Users", action |-> "read"],
    [route |-> "GET /users/:id",      module |-> "Users", action |-> "read"],
    [route |-> "POST /users",         module |-> "Users", action |-> "create"],
    [route |-> "PUT /users/:id",      module |-> "Users", action |-> "update"],
    [route |-> "DELETE /users/:id",   module |-> "Users", action |-> "delete"],
    [route |-> "GET /groups",         module |-> "Groups", action |-> "read"],
    [route |-> "GET /groups/:id",     module |-> "Groups", action |-> "read"],
    [route |-> "POST /groups",        module |-> "Groups", action |-> "create"],
    [route |-> "PUT /groups/:id",     module |-> "Groups", action |-> "update"],
    [route |-> "DELETE /groups/:id",  module |-> "Groups", action |-> "delete"],
    [route |-> "POST /groups/:id/users",   module |-> "Groups", action |-> "update"],
    [route |-> "DELETE /groups/:id/users", module |-> "Groups", action |-> "update"],
    [route |-> "POST /groups/:id/roles",   module |-> "Groups", action |-> "update"],
    [route |-> "DELETE /groups/:id/roles", module |-> "Groups", action |-> "update"],
    [route |-> "GET /roles",          module |-> "Roles", action |-> "read"],
    [route |-> "GET /roles/:id",      module |-> "Roles", action |-> "read"],
    [route |-> "POST /roles",         module |-> "Roles", action |-> "create"],
    [route |-> "PUT /roles/:id",      module |-> "Roles", action |-> "update"],
    [route |-> "DELETE /roles/:id",   module |-> "Roles", action |-> "delete"],
    [route |-> "POST /roles/:id/permissions",   module |-> "Roles", action |-> "update"],
    [route |-> "DELETE /roles/:id/permissions", module |-> "Roles", action |-> "update"],
    [route |-> "GET /modules",        module |-> "Modules", action |-> "read"],
    [route |-> "GET /modules/:id",    module |-> "Modules", action |-> "read"],
    [route |-> "POST /modules",       module |-> "Modules", action |-> "create"],
    [route |-> "PUT /modules/:id",    module |-> "Modules", action |-> "update"],
    [route |-> "DELETE /modules/:id", module |-> "Modules", action |-> "delete"],
    [route |-> "GET /permissions",        module |-> "Permissions", action |-> "read"],
    [route |-> "GET /permissions/by-module/grouped",
                                          module |-> "Permissions", action |-> "read"],
    [route |-> "GET /permissions/:id",    module |-> "Permissions", action |-> "read"],
    [route |-> "POST /permissions",       module |-> "Permissions", action |-> "create"],
    [route |-> "PUT /permissions/:id",    module |-> "Permissions", action |-> "update"],
    [route |-> "DELETE /permissions/:id", module |-> "Permissions", action |-> "delete"] }

\* the routes that carry no permission check
ungatedRoutes == {"POST /register", "GET /me/permissions", "POST /simulate-action"}

\* this step handles a request
handles == req = NoRequest /\ req' # NoRequest

\* C3: every request to a Users, Groups, Roles, Modules or Permissions route
\* is decided by the resolver on that route's module and action, evaluated
\* on the store the request finds: when it denies, the response is 403
\* Forbidden, carries no entity data and no table is written; when it
\* grants, the response is not Forbidden.
C3_DeniedIsForbidden ==
  [][ handles =>
        /\ req'.route \in ungatedRoutes \cup {g.route : g \in routeGates}
        /\ \A g \in routeGates :
             req'.route = g.route =>
               IF checkPermission(req'.caller, g.module, g.action)
               THEN res'.status # 403
               ELSE /\ res'.status = 403
                    /\ res'.data = {}
                    /\ UNCHANGED tables ]_vars

\* a registered user without any group asks to be put into the
\* Administrators group and is refused
C3_Witness ==
  /\ answered("POST /groups/:id/users")
  /\ res.status = 403
  /\ req.caller \in DOMAIN users
  /\ req.id = adminGroupId
  /\ req.body.ids = <<req.caller>>
  /\ <<req.caller, adminGroupId>> \notin user_groups

(* ------------------------------------------------------------------ *)
(* C4                                                                  *)
(* ------------------------------------------------------------------ *)
\* C4: in every reachable state every row of user_groups, group_roles and
\* role_permissions references two entities that exist.
C4_NoDanglingAssociation ==
  /\ \A x \in user_groups : x[1] \in DOMAIN users /\ x[2] \in DOMAIN groups
  /\ \A x \in group_roles : x[1] \in DOMAIN groups /\ x[2] \in DOMAIN roles
  /\ \A x \in role_permissions : x[1] \in DOMAIN roles /\ x[2] \in DOMAIN permissions

(* ------------------------------------------------------------------ *)
(* C5                                                                  *)
(* ------------------------------------------------------------------ *)
\* C5: a deleted user is a member of no group, is denied every module and
\* action by the permission check, and has the empty permission map.
C5_DeletedUserHoldsNothing ==
  \A U \in deletedUsers :
    /\ \A g \in 1..MaxGroups : <<U, g>> \notin user_groups
    /\ \A M \in AnyModuleName, A \in validActions : ~ checkPermission(U, M, A)
    /\ DOMAIN getUserPermissions(U) = {}

(* ------------------------------------------------------------------ *)
(* C6                                                                  *)
(* ------------------------------------------------------------------ *)
\* role r is the only role through which U holds action A on module M
onlyThrough(U, M, A, r) ==
  /\ grantingPath(U, M, A)
  /\ \A r2 \in 1..MaxRoles, p \in DOMAIN permissions :
       ( /\ reaches(U, r2)
         /\ <<r2, p>> \in role_permissions
         /\ permissions[p].action = A
         /\ permissions[p].module_id \in DOMAIN modules
         /\ modules[permissions[p].module_id].name = M ) => r2 = r

\* C6: no group-role row and no role-permission row references a deleted
\* role, and no user holds a permission that only a deleted role gives.
C6_DeletedRoleGrantsNothing ==
  \A R \in deletedRoles :
    /\ \A x \in group_roles : x[2] # R
    /\ \A x \in role_permissions : x[1] # R
    /\ \A U \in AnyUser, M \in AnyModuleName, A \in validActions :
         ~ (checkPermission(U, M, A) /\ onlyThrough(U, M, A, R))

(* ------------------------------------------------------------------ *)
(* C7                                                                  *)
(* ------------------------------------------------------------------ *)
\* U holds action A on module M through group g
holdsThrough(U, M, A, g) ==
  /\ <<U, g>> \in user_groups
  /\ \E r \in 1..MaxRoles, p \in DOMAIN permissions :
       /\ <<g, r>> \in group_roles
       /\ <<r, p>> \in role_permissions
       /\ permissions[p].action = A
       /\ permissions[p].module_id \in DOMAIN modules
       /\ modules[permissions[p].module_id].name = M

\* C7: no membership row and no group-role row references a deleted group,
\* and no user holds a permission that only a deleted group gives.
C7_DeletedGroupGrantsNothing ==
  \A G \in deletedGroups :
    /\ \A x \in user_groups : x[2] # G
    /\ \A x \in group_roles : x[1] # G
    /\ \A U \in AnyUser, M \in AnyModuleName, A \in validActions :
         ~ ( /\ checkPermission(U, M, A)
             /\ holdsThrough(U, M, A, G)
             /\ \A g \in (1..MaxGroups) \ {G} : ~ holdsThrough(U, M, A, g) )

(* ------------------------------------------------------------------ *)
(* C8                                                                  *)
(* ------------------------------------------------------------------ *)
\* this step deletes the module named n
deletesModuleNamed(n) ==
  \E m \in DOMAIN modules : modules[m].name = n /\ m \notin DOMAIN modules'

\* this step gives the name n to a module that existed under another name
renamesModuleTo(n) ==
  \E m \in (DOMAIN modules) \cap (DOMAIN modules') :
    modules[m].name # n /\ modules'[m].name = n

\* C8: the step that deletes the module named n leaves every user denied
\* every action on n; and while no module is named n, every step other than
\* the renaming of an existing module to n (creating a new module named n
\* included) leaves every user denied every action on n: a grant on n needs
\* a role-linked permission of an existing module of that name.
C8_DeletedModuleDenies ==
  [][ \A n \in AnyModuleName :
        ( \/ deletesModuleNamed(n)
          \/ /\ \A m \in DOMAIN modules : modules[m].name # n
             /\ ~ renamesModuleTo(n) )
        => \A U \in AnyUser, A \in validActions : ~ checkPermission(U, n, A)' ]_vars

\* the module Permissions was deleted and a new module of that name was
\* created by the next request
C8_Witness ==
  /\ answered("POST /modules")
  /\ res.status = 201
  /\ req.body.name = "Permissions"
  /\ 5 \in deletedModules
  /\ served = 2
  /\ \A U \in AnyUser, A \in validActions : ~ checkPermission(U, "Permissions", A)

(* ------------------------------------------------------------------ *)
(* C9, C10: the three link operations                                  *)
(* ------------------------------------------------------------------ *)
linkRoutes ==
  {"POST /groups/:id/users", "POST /groups/:id/roles", "POST /roles/:id/permissions"}

\* the ids of the existing owners of a link route
linkOwners(route) ==
  IF route = "POST /roles/:id/permissions" THEN DOMAIN roles ELSE DOMAIN groups

\* the ids of the existing counterparts of a link route
linkCounterparts(route) ==
  CASE route = "POST /groups/:id/users" -> DOMAIN users
    [] route = "POST /groups/:id/roles" -> DOMAIN roles
    [] route = "POST /roles/:id/permissions" -> DOMAIN permissions

\* the module whose update permission a link route asks for
linkModule(route) ==
  IF route = "POST /roles/:id/permissions" THEN "Roles" ELSE "Groups"

\* {owner} x S as rows of the route's association table
linkPairs(route, owner, S) ==
  IF route = "POST /groups/:id/users"
  THEN {<<c, owner>> : c \in S}
  ELSE {<<owner, c>> : c \in S}

notFoundErrors ==
  {"Group not found", "Role not found", "One or more users not found",
   "One or more roles not found", "One or more permissions not found"}

\* some id of the link request handled by this step references nothing
linkMissing ==
  \/ req'.id \notin linkOwners(req'.route)
  \/ \E i \in DOMAIN req'.body.ids : req'.body.ids[i] \notin linkCounterparts(req'.route)

\* the link request handled by this step passes validateId and the body schema
linkWellFormed == validateId(req'.id) /\ validateIds(req'.body.ids)

\* C9: a link request whose owner does not exist, or one of whose counterpart
\* ids references no existing entity, does not succeed and leaves every table
\* exactly as before; when the caller is permitted and the ids are well
\* formed, its error is a not-found error.
C9_LinkAllOrNothing ==
  [][ (handles /\ req'.route \in linkRoutes /\ linkMissing) =>
        /\ UNCHANGED tables
        /\ res'.status \notin {200, 201}
        /\ (linkWellFormed
              /\ checkPermission(req'.caller, linkModule(req'.route), "update"))
             => res'.error \in notFoundErrors ]_vars

\* users 1 and 2 are to be added to a group of which user 1 is a member and
\* user 2 does not exist: refused, user 1 is still a member
C9_Witness ==
  /\ answered("POST /groups/:id/users")
  /\ res.status = 400
  /\ res.error = "One or more users not found"
  /\ req.id \in DOMAIN groups
  /\ \E i \in DOMAIN req.body.ids :
       /\ req.body.ids[i] \in DOMAIN users
       /\ <<req.body.ids[i], req.id>> \in user_groups
  /\ \E i \in DOMAIN req.body.ids : req.body.ids[i] \notin DOMAIN users

\* the effect of a successful link on the three association tables
linkEffect(route, pairs) ==
  CASE route = "POST /groups/:id/users" ->
         /\ user_groups' = user_groups \cup pairs
         /\ UNCHANGED <<group_roles, role_permissions>>
    [] route = "POST /groups/:id/roles" ->
         /\ group_roles' = group_roles \cup pairs
         /\ UNCHANGED <<user_groups, role_permissions>>
    [] route = "POST /roles/:id/permissions" ->
         /\ role_permissions' = role_permissions \cup pairs
         /\ UNCHANGED <<user_groups, group_roles>>

\* C10: a successful link(owner, S) leaves its relation equal to the old one
\* united with {owner} x S and every other table unchanged; and a link by a
\* permitted caller with an existing owner and distinct existing counterparts
\* succeeds, whether or not some of the pairs were linked before.
C10_LinkIsUnion ==
  [][ (handles /\ req'.route \in linkRoutes) =>
        /\ res'.status = 200 =>
             /\ linkEffect(req'.route,
                           linkPairs(req'.route, req'.id, Range(req'.body.ids)))
             /\ UNCHANGED <<users, groups, roles, modules, permissions>>
        /\ ( /\ checkPermission(req'.caller, linkModule(req'.route), "update")
             /\ linkWellFormed
             /\ ~ linkMissing
             /\ Cardinality(Range(req'.body.ids)) = Len(req'.body.ids) )
             => res'.status = 200 ]_vars

\* the second request links users 1 and 2 to the Administrators group, of
\* which user 1 has been a member since the seed
C10_Witness ==
  /\ answered("POST /groups/:id/users")
  /\ res.status = 200
  /\ served = 2
  /\ req.id = adminGroupId
  /\ req.body.ids = <<1, 2>>
  /\ user_groups = {<<1, adminGroupId>>, <<2, adminGroupId>>}

(* ------------------------------------------------------------------ *)
(* C11                                                                 *)
(* ------------------------------------------------------------------ *)
\* the association table a link route writes
linkTable(route) ==
  CASE route = "POST /groups/:id/users" -> user_groups
    [] route = "POST /groups/:id/roles" -> group_roles
    [] route = "POST /roles/:id/permissions" -> role_permissions

\* what the handler of a link route does with (owner, ids) in the current
\* store once the owner was found
linkResult(route, owner, ids) ==
  CASE route = "POST /groups/:id/users" ->
         assign(user_groups, 2, owner, users, ids, "users")
    [] route = "POST /groups/:id/roles" ->
         assign(group_roles, 1, owner, roles, ids, "roles")
    [] route = "POST /roles/:id/permissions" ->
         assign(role_permissions, 1, owner, permissions, ids, "permissions")

\* C11: link is idempotent.  In the state a successful link(owner, S) leaves,
\* the same request passes the gate and finds its owner again, succeeds, and
\* writes the very table it finds (so the second call changes no table and
\* no resolver answer); and a successful link of pairs that are all linked
\* already changes no table.
C11_LinkIdempotent ==
  [][ (handles /\ req'.route \in linkRoutes /\ res'.status = 200) =>
        \A route \in {req'.route}, caller \in {req'.caller},
           owner \in {req'.id}, ids \in {req'.body.ids} :
          /\ checkPermission(caller, linkModule(route), "update")'
          /\ (owner \in linkOwners(route))'
          /\ (linkResult(route, owner, ids).status = 200)'
          /\ (linkResult(route, owner, ids).tbl = linkTable(route))'
          /\ linkPairs(route, owner, Range(ids)) \subseteq linkTable(route)
               => UNCHANGED tables ]_vars

\* the first request after the seed links role 1 to group 1 again, as the
\* seed did: it succeeds and group_roles is as the seed left it
C11_Witness ==
  /\ answered("POST /groups/:id/roles")
  /\ served = 1
  /\ res.status = 200
  /\ req.id = adminGroupId
  /\ req.body.ids = <<adminRoleId>>
  /\ group_roles = {<<adminGroupId, adminRoleId>>}

(* ------------------------------------------------------------------ *)
(* C12                                                                 *)
(* ------------------------------------------------------------------ *)
unlinkRoutes ==
  {"DELETE /groups/:id/users", "DELETE /groups/:id/roles",
   "DELETE /roles/:id/permissions"}

\* the link route that writes the table an unlink route deletes from
linkRouteOf(route) ==
  CASE route = "DELETE /groups/:id/users" -> "POST /groups/:id/users"
    [] route = "DELETE /groups/:id/roles" -> "POST /groups/:id/roles"
    [] route = "DELETE /roles/:id/permissions" -> "POST /roles/:id/permissions"

\* the effect of an unlink on the three association tables
unlinkEffect(route, pairs) ==
  CASE route = "DELETE /groups/:id/users" ->
         /\ user_groups' = user_groups \ pairs
         /\ UNCHANGED <<group_roles, role_permissions>>
    [] route = "DELETE /groups/:id/roles" ->
         /\ group_roles' = group_roles \ pairs
         /\ UNCHANGED <<user_groups, role_permissions>>
    [] route = "DELETE /roles/:id/permissions" ->
         /\ role_permissions' = role_permissions \ pairs
         /\ UNCHANGED <<user_groups, group_roles>>

\* C12: an unlink(owner, S) that reaches its handler (permitted caller, well
\* formed ids) on an existing owner succeeds, removes exactly the linked pairs
\* among {owner} x S and nothing else, and reports as removedCount the number
\* of rows it removed (zero when none was linked); on an owner that does not
\* exist it answers 404 not found and changes no table.
C12_UnlinkIsDifference ==
  [][ ( /\ handles
        /\ req'.route \in unlinkRoutes
        /\ validateId(req'.id)
        /\ validateIds(req'.body.ids)
        /\ checkPermission(req'.caller, linkModule(linkRouteOf(req'.route)), "update") )
      => LET link  == linkRouteOf(req'.route)
             pairs == linkPairs(link, req'.id, Range(req'.body.ids))
         IN  IF req'.id \in linkOwners(link)
             THEN /\ res'.status = 200
                  /\ unlinkEffect(req'.route, pairs)
                  /\ UNCHANGED <<users, groups, roles, modules, permissions>>
                  /\ res'.removedCount = Cardinality(pairs \cap linkTable(link))
             ELSE /\ res'.status = 404
                  /\ res'.error \in notFoundErrors
                  /\ UNCHANGED tables ]_vars

\* users 1 and 2 are removed from the Administrators group, of which only
\* user 1 was a member: one row removed, removedCount 1
C12_Witness ==
  /\ answered("DELETE /groups/:id/users")
  /\ served = 1
  /\ res.status = 200
  /\ req.id = adminGroupId
  /\ req.body.ids = <<1, 2>>
  /\ res.removedCount = 1
  /\ user_groups = {}

(* ------------------------------------------------------------------ *)
(* C17                                                                 *)
(* ------------------------------------------------------------------ *)
\* table new is table old with exactly one row added
oneRowAdded(old, new) ==
  /\ Cardinality((DOMAIN new) \ (DOMAIN old)) = 1
  /\ \A x \in DOMAIN old : x \in DOMAIN new /\ new[x] = old[x]

\* C17: a successful POST /modules adds one module and exactly four
\* permissions of it, one for each of create, read, update and delete, none
\* of them linked to a role, and changes nothing else; every other
\* successful create (user, registration, group, role, permission) adds one
\* row to its own table and changes no other table.
C17_CreateWritesOwnRows ==
  [][ (handles /\ res'.status = 201) =>
        CASE req'.route = "POST /modules" ->
               /\ oneRowAdded(modules, modules')
               /\ \A x \in DOMAIN permissions :
                    x \in DOMAIN permissions' /\ permissions'[x] = permissions[x]
               /\ \E m \in (DOMAIN modules') \ (DOMAIN modules) :
                    LET ps == {p \in DOMAIN permissions' :
                                 permissions'[p].module_id = m}
                    IN  /\ ps = (DOMAIN permissions') \ (DOMAIN permissions)
                        /\ Cardinality(ps) = 4
                        /\ {permissions'[p].action : p \in ps} = validActions
                        /\ \A p \in ps : \A rp \in role_permissions' : rp[2] # p
               /\ UNCHANGED <<users, groups, roles,
                              user_groups, group_roles, role_permissions>>
          [] req'.route \in {"POST /users", "POST /register"} ->
               /\ oneRowAdded(users, users')
               /\ UNCHANGED <<groups, roles, modules, permissions,
                              user_groups, group_roles, role_permissions>>
          [] req'.route = "POST /groups" ->
               /\ oneRowAdded(groups, groups')
               /\ UNCHANGED <<users, roles, modules, permissions,
                              user_groups, group_roles, role_permissions>>
          [] req'.route = "POST /roles" ->
               /\ oneRowAdded(roles, roles')
               /\ UNCHANGED <<users, groups, modules, permissions,
                              user_groups, group_roles, role_permissions>>
          [] req'.route = "POST /permissions" ->
               /\ oneRowAdded(permissions, permissions')
               /\ UNCHANGED <<users, groups, roles, modules,
                              user_groups, group_roles, role_permissions>>
          [] OTHER -> FALSE ]_vars

\* the module Billing was created as module 6 with permissions 21..24
C17_Witness ==
  /\ answered("POST /modules")
  /\ res.status = 201
  /\ req.body.name = "Billing"
  /\ 6 \in DOMAIN modules
  /\ {p \in DOMAIN permissions : permissions[p].module_id = 6} = 21..24
  /\ \A rp \in role_permissions : rp[2] \notin 21..24

(* ------------------------------------------------------------------ *)
(* C18                                                                 *)
(* ------------------------------------------------------------------ *)
\* C18: every permission row has one of the four actions and its module_id
\* is the id of a module that exists.
C18_PermissionHasModule ==
  \A p \in DOMAIN permissions :
    /\ permissions[p].action \in validActions
    /\ permissions[p].module_id \in DOMAIN modules

(* ------------------------------------------------------------------ *)
(* Handlers run statement by statement                                 *)
(*                                                                     *)
(* The database is opened in sqlite3's default (parallel) mode and no  *)
(* handler opens a transaction: each db.get / db.all / db.run /        *)
(* stmt.run is one atomic statement, and between a statement and its   *)
(* callback the statements of other requests may run.                  *)
(* ------------------------------------------------------------------ *)
\* the number of requests in flight together
MaxCalls == 2

\* the routes whose first middleware after authenticateToken is checkPermission
gatedRoutes == {g.route : g \in routeGates}

gateOf(route) == CHOOSE g \in routeGates : g.route = route

\* a request that arrived: pc is the statement it runs next, i the index of
\* the next stmt.run of its insert loop, hasError the loop's flag, found the
\* row an earlier SELECT returned (or this.lastID), inserted / failures the
\* number of its loop inserts that succeeded / failed, cleared the changes of
\* its DELETE, res its response (NoResponse until res.json is called)
Call(q) ==
  [route |-> q.route, caller |-> q.caller, id |-> q.id, body |-> q.body,
   pc |-> IF q.route \in gatedRoutes THEN "gate" ELSE "handler",
   i |-> 1, hasError |-> FALSE, found |-> 0,
   inserted |-> 0, failures |-> 0, cleared |-> 0, res |-> NoResponse]

\* res.status(status).json({ error }) and return: no further statement
respond(call, status, error) ==
  [call EXCEPT !.res = Response(status, error, {}), !.pc = "done"]

responded(call) == call.res # NoResponse

\* call c is at statement pc of a route in routes
at(c, routes, pc) == calls[c].route \in routes /\ calls[c].pc = pc

setCall(c, call) == calls' = [calls EXCEPT ![c] = call]

notServing == UNCHANGED <<foreign_keys, served, req, res, boot>>

\* the store after the seed and an admin's POST /users for alice
seedAndUser ==
  /\ modules = [m \in 1..Len(seedModules) |-> [name |-> seedModules[m]]]
  /\ permissions = seedPermissions
  /\ roles = [r \in {adminRoleId} |-> [name |-> "Admin"]]
  /\ role_permissions = {<<adminRoleId, p>> : p \in DOMAIN seedPermissions}
  /\ groups = [g \in {adminGroupId} |-> [name |-> "Administrators"]]
  /\ group_roles = {<<adminGroupId, adminRoleId>>}
  /\ users = [u \in {adminUserId, 2} |->
                IF u = adminUserId
                THEN [username |-> "admin", email |-> "joydaven@gmail.com"]
                ELSE [username |-> "alice", email |-> "alice@example.com"]]
  /\ user_groups = {<<adminUserId, adminGroupId>>}
  /\ sqlite_sequence = [users |-> 2, groups |-> 1, roles |-> 1,
                        modules |-> Len(seedModules),
                        permissions |-> Len(seedModules) * Len(actions)]

\* owner ids and id lists of the link requests in flight
ConcurrentIds == {1, 2}
ConcurrentIdLists == {<<1>>, <<2>>, <<1, 2>>}

\* checkPermission(module, action), then validateId and validate(schema)
Gate ==
  \E c \in DOMAIN calls :
    /\ calls[c].pc = "gate"
    /\ LET call == calls[c]
           g == gateOf(call.route)
       IN  setCall(c,
             IF ~ checkPermission(call.caller, g.module, g.action)
             THEN respond(call, 403, "Permission denied")
             ELSE IF call.id # NoId /\ ~ validateId(call.id)
             THEN respond(call, 400, "Invalid ID parameter")
             ELSE IF call.route \in linkRoutes /\ ~ validateIds(call.body.ids)
             THEN respond(call, 400, "Validation failed")
             ELSE [call EXCEPT !.pc = "handler"])
    /\ UNCHANGED tables
    /\ notServing

(* ---- POST /groups/:id/users, /groups/:id/roles, /roles/:id/permissions ---- *)
\* the column of the owner in the association table of a link route
ownerCol(route) == IF route = "POST /groups/:id/users" THEN 2 ELSE 1

ownerNotFound(route) ==
  IF route = "POST /roles/:id/permissions" THEN "Role not found" ELSE "Group not found"

counterpartsName(route) ==
  CASE route = "POST /groups/:id/users" -> "users"
    [] route = "POST /groups/:id/roles" -> "roles"
    [] route = "POST /roles/:id/permissions" -> "permissions"

\* the association table of a link route becomes tbl
writeLinkTable(route, tbl) ==
  CASE route = "POST /groups/:id/users" ->
         user_groups' = tbl /\ UNCHANGED <<group_roles, role_permissions>>
    [] route = "POST /groups/:id/roles" ->
         group_roles' = tbl /\ UNCHANGED <<user_groups, role_permissions>>
    [] route = "POST /roles/:id/permissions" ->
         role_permissions' = tbl /\ UNCHANGED <<user_groups, group_roles>>

\* db.get('SELECT id FROM groups WHERE id = ?')
LinkSelectOwner ==
  \E c \in DOMAIN calls :
    /\ at(c, linkRoutes, "handler")
    /\ LET call == calls[c]
       IN  setCall(c, IF call.id \notin linkOwners(call.route)
                      THEN respond(call, 404, ownerNotFound(call.route))
                      ELSE [call EXCEPT !.pc = "verify"])
    /\ UNCHANGED tables
    /\ notServing

\* db.all(`SELECT id FROM users WHERE id IN (...)`): users.length !== userIds.length
LinkSelectCounterparts ==
  \E c \in DOMAIN calls :
    /\ at(c, linkRoutes, "verify")
    /\ LET call == calls[c]
           rows == linkCounterparts(call.route) \cap Range(call.body.ids)
       IN  setCall(c, IF Cardinality(rows) # Len(call.body.ids)
                      THEN respond(call, 400, "One or more "
                                     \o counterpartsName(call.route) \o " not found")
                      ELSE [call EXCEPT !.pc = "clear"])
    /\ UNCHANGED tables
    /\ notServing

\* db.run(`DELETE FROM user_groups WHERE group_id = ? AND user_id IN (...)`)
LinkClear ==
  \E c \in DOMAIN calls :
    /\ at(c, linkRoutes, "clear")
    /\ LET call == calls[c]
           tbl  == linkTable(call.route)
           kept == deleteLinks(tbl, ownerCol(call.route), call.id, call.body.ids)
       IN  /\ writeLinkTable(call.route, kept)
           /\ setCall(c, [call EXCEPT !.pc = "insert",
                                      !.cleared = Cardinality(tbl \ kept)])
    /\ UNCHANGED <<users, groups, roles, modules, permissions, sqlite_sequence>>
    /\ notServing

\* INSERT INTO <association>: fails on the UNIQUE pair, and on a foreign key
\* that references no row when foreign keys are enforced
canInsertLink(route, owner, counterpart) ==
  /\ linkRow(ownerCol(route), owner, counterpart) \notin linkTable(route)
  /\ foreign_keys => (owner \in linkOwners(route)
                        /\ counterpart \in linkCounterparts(route))

\* stmt.run(userId, groupId, callback): the first failed insert answers 500
\* and the loop goes on; the last callback answers 200 when none failed
LinkInsert ==
  \E c \in DOMAIN calls :
    /\ at(c, linkRoutes, "insert")
    /\ LET call == calls[c]
           ids  == call.body.ids
           ok   == canInsertLink(call.route, call.id, ids[call.i])
           row  == linkRow(ownerCol(call.route), call.id, ids[call.i])
           last == call.i = Len(ids)
       IN  /\ writeLinkTable(call.route,
                IF ok THEN linkTable(call.route) \cup {row} ELSE linkTable(call.route))
           /\ setCall(c,
                [call EXCEPT
                   !.i = call.i + 1,
                   !.pc = IF last THEN "done" ELSE "insert",
                   !.inserted = IF ok THEN call.inserted + 1 ELSE call.inserted,
                   !.failures = IF ok THEN call.failures ELSE call.failures + 1,
                   !.hasError = call.hasError \/ ~ ok,
                   !.res = IF ~ ok /\ ~ call.hasError
                           THEN Response(500, "Failed to assign "
                                                \o counterpartsName(call.route), {})
                           ELSE IF ok /\ last /\ ~ call.hasError
                           THEN Response(200, "", {})
                           ELSE call.res])
    /\ UNCHANGED <<users, groups, roles, modules, permissions, sqlite_sequence>>
    /\ notServing

(* ---- DELETE /users/:id, /groups/:id, /roles/:id, /modules/:id, /permissions/:id ---- *)
deleteRoutes ==
  {"DELETE /users/:id", "DELETE /groups/:id", "DELETE /roles/:id",
   "DELETE /modules/:id", "DELETE /permissions/:id"}

\* the ids of the rows of the table a delete route deletes from
deleteTarget(route) ==
  CASE route = "DELETE /users/:id" -> DOMAIN users
    [] route = "DELETE /groups/:id" -> DOMAIN groups
    [] route = "DELETE /roles/:id" -> DOMAIN roles
    [] route = "DELETE /modules/:id" -> DOMAIN modules
    [] route = "DELETE /permissions/:id" -> DOMAIN permissions

targetNotFound(route) ==
  CASE route = "DELETE /users/:id" -> "User not found"
    [] route = "DELETE /groups/:id" -> "Group not found"
    [] route = "DELETE /roles/:id" -> "Role not found"
    [] route = "DELETE /modules/:id" -> "Module not found"
    [] route = "DELETE /permissions/:id" -> "Permission not found"

\* db.get('SELECT id FROM <table> WHERE id = ?'), and for a user the check
\* userId == req.user.id
DeleteSelect ==
  \E c \in DOMAIN calls :
    /\ at(c, deleteRoutes, "handler")
    /\ LET call == calls[c]
       IN  setCall(c,
             IF call.id \notin deleteTarget(call.route)
             THEN respond(call, 404, targetNotFound(call.route))
             ELSE IF call.route = "DELETE /users/:id" /\ call.id = call.caller
             THEN respond(call, 400, "Cannot delete your own account")
             ELSE [call EXCEPT !.pc = "delete"])
    /\ UNCHANGED tables
    /\ notServing

\* db.run('DELETE FROM <table> WHERE id = ?'), with the cascades of the schema
DeleteRun ==
  \E c \in DOMAIN calls :
    /\ at(c, deleteRoutes, "delete")
    /\ LET call == calls[c]
           id == call.id
           perms == cascadePermissions({id})
       IN  /\ CASE call.route = "DELETE /users/:id" ->
                     /\ users' = Without(users, id)
                     /\ user_groups' = cascade(user_groups, 1, {id})
                     /\ UNCHANGED <<groups, roles, modules, permissions,
                                    group_roles, role_permissions>>
                [] call.route = "DELETE /groups/:id" ->
                     /\ groups' = Without(groups, id)
                     /\ user_groups' = cascade(user_groups, 2, {id})
                     /\ group_roles' = cascade(group_roles, 1, {id})
                     /\ UNCHANGED <<users, roles, modules, permissions, role_permissions>>
                [] call.route = "DELETE /roles/:id" ->
                     /\ roles' = Without(roles, id)
                     /\ group_roles' = cascade(group_roles, 2, {id})
                     /\ role_permissions' = cascade(role_permissions, 1, {id})
                     /\ UNCHANGED <<users, groups, modules, permissions, user_groups>>
                [] call.route = "DELETE /modules/:id" ->
                     /\ modules' = Without(modules, id)
                     /\ permissions' = perms
                     /\ role_permissions' =
                          cascade(role_permissions, 2,
                                  (DOMAIN permissions) \ (DOMAIN perms))
                     /\ UNCHANGED <<users, groups, roles, user_groups, group_roles>>
                [] call.route = "DELETE /permissions/:id" ->
                     /\ permissions' = Without(permissions, id)
                     /\ role_permissions' = cascade(role_permissions, 2, {id})
                     /\ UNCHANGED <<users, groups, roles, modules,
                                    user_groups, group_roles>>
           /\ setCall(c, respond(call, 200, ""))
    /\ UNCHANGED sqlite_sequence
    /\ notServing

(* ---- GET /me/permissions, POST /simulate-action ---- *)
\* getUserPermissions(req.user.id, callback)
MePermissionsQuery ==
  \E c \in DOMAIN calls :
    /\ at(c, {"GET /me/permissions"}, "handler")
    /\ LET call == calls[c]
       IN  setCall(c, [call EXCEPT
                         !.pc = "done",
                         !.res = [status |-> 200, error |-> "", data |-> {},
                                  permissions |-> getUserPermissions(call.caller)]])
    /\ UNCHANGED tables
    /\ notServing

\* db.get(query, [userId, module, action]): hasPermission = row.count > 0
SimulateActionQuery ==
  \E c \in DOMAIN calls :
    /\ at(c, {"POST /simulate-action"}, "handler")
    /\ LET call == calls[c]
           b == call.body
       IN  setCall(c, [call EXCEPT
                         !.pc = "done",
                         !.res = [status |-> 200, error |-> "", data |-> {},
                                  hasPermission |->
                                    permissionCount(b.userId, b.module, b.action) > 0]])
    /\ UNCHANGED tables
    /\ notServing

(* ---- the entity tables and their constraints ---- *)
\* the name of the table a create or update route writes
routeTable(route) ==
  CASE route \in {"POST /users", "POST /register", "PUT /users/:id"} -> "users"
    [] route \in {"POST /groups", "PUT /groups/:id"} -> "groups"
    [] route \in {"POST /roles", "PUT /roles/:id"} -> "roles"
    [] route \in {"POST /modules", "PUT /modules/:id"} -> "modules"
    [] route \in {"POST /permissions", "PUT /permissions/:id"} -> "permissions"

entityTable(tbl) ==
  CASE tbl = "users" -> users
    [] tbl = "groups" -> groups
    [] tbl = "roles" -> roles
    [] tbl = "modules" -> modules
    [] tbl = "permissions" -> permissions

\* table tbl becomes rows; the other entity tables stay
writeEntity(tbl, rows) ==
  CASE tbl = "users" ->
         users' = rows /\ UNCHANGED <<groups, roles, modules, permissions>>
    [] tbl = "groups" ->
         groups' = rows /\ UNCHANGED <<users, roles, modules, permissions>>
    [] tbl = "roles" ->
         roles' = rows /\ UNCHANGED <<users, groups, modules, permissions>>
    [] tbl = "modules" ->
         modules' = rows /\ UNCHANGED <<users, groups, roles, permissions>>
    [] tbl = "permissions" ->
         permissions' = rows /\ UNCHANGED <<users, groups, roles, modules>>

\* rows a and b of table tbl may not both be in it: username TEXT UNIQUE,
\* email TEXT UNIQUE, name TEXT UNIQUE, UNIQUE(action, module_id)
clash(tbl, a, b) ==
  CASE tbl = "users" -> a.username = b.username \/ a.email = b.email
    [] tbl = "permissions" -> a.action = b.action /\ a.module_id = b.module_id
    [] OTHER -> a.name = b.name

\* the constraints with the UNIQUE clauses left out of the schema
constraintFailsWithoutUnique(tbl, id, row) ==
  tbl = "permissions" /\ foreign_keys /\ row.module_id \notin DOMAIN modules

\* an INSERT of row as id, or an UPDATE of row id to row, fails: a UNIQUE
\* clause, or the module_id foreign key when foreign keys are enforced
constraintFails(tbl, id, row) ==
  \/ \E x \in (DOMAIN entityTable(tbl)) \ {id} : clash(tbl, row, entityTable(tbl)[x])
  \/ tbl = "permissions" /\ foreign_keys /\ row.module_id \notin DOMAIN modules

\* the row a create or update request asks for; absent fields of a user
\* update keep the value of row old
requestedRow(tbl, body, old) ==
  CASE tbl = "users" ->
         [username |-> IF body.username # None THEN body.username ELSE old.username,
          email    |-> IF body.email # None THEN body.email ELSE old.email]
    [] tbl = "permissions" -> [action |-> body.action, module_id |-> old.module_id]
    [] OTHER -> [name |-> body.name]

\* the word the error messages use for a row of table tbl
rowName(tbl) ==
  CASE tbl = "users" -> "user"
    [] tbl = "groups" -> "group"
    [] tbl = "roles" -> "role"
    [] tbl = "modules" -> "module"
    [] tbl = "permissions" -> "permission"

alreadyExists(tbl) ==
  CASE tbl = "users" -> "Username or email already exists"
    [] tbl = "groups" -> "Group name already exists"
    [] tbl = "roles" -> "Role name already exists"
    [] tbl = "modules" -> "Module name already exists"
    [] tbl = "permissions" -> "Permission already exists for this module and action"

(* ---- POST /users, /register, /groups, /roles, /modules ---- *)
createRoutes ==
  {"POST /users", "POST /register", "POST /groups", "POST /roles", "POST /modules"}

\* db.get('SELECT id FROM users WHERE username = ? OR email = ?') /
\* db.get('SELECT id FROM <table> WHERE name = ?')
CreateSelect ==
  \E c \in DOMAIN calls :
    /\ at(c, createRoutes, "handler")
    /\ LET call == calls[c]
           tbl == routeTable(call.route)
           existing == \E x \in DOMAIN entityTable(tbl) :
                         clash(tbl, call.body, entityTable(tbl)[x])
       IN  setCall(c, IF existing THEN respond(call, 400, alreadyExists(tbl))
                      ELSE [call EXCEPT !.pc = "insert"])
    /\ UNCHANGED tables
    /\ notServing

\* db.run('INSERT INTO <table> ...'): 500 on err, else 201 with this.lastID;
\* POST /modules goes on to its permission inserts
CreateInsert ==
  \E c \in DOMAIN calls :
    /\ at(c, createRoutes, "insert")
    /\ LET call == calls[c]
           tbl == routeTable(call.route)
           id  == lastID(tbl)
           row == requestedRow(tbl, call.body, call.body)
       IN  IF constraintFails(tbl, id, row)
           THEN /\ setCall(c, respond(call, 500, "Failed to create " \o rowName(tbl)))
                /\ UNCHANGED tables
           ELSE /\ writeEntity(tbl, With(entityTable(tbl), id, row))
                /\ sqlite_sequence' = [sqlite_sequence EXCEPT ![tbl] = id]
                /\ UNCHANGED <<user_groups, group_roles, role_permissions>>
                /\ setCall(c, IF tbl = "modules"
                              THEN [call EXCEPT !.pc = "permissions", !.found = id]
                              ELSE [call EXCEPT !.pc = "done",
                                                !.res = Response(201, "", {id})])
    /\ notServing

\* stmt.run(action, moduleId, (err) => { completed++; ... }): err is not
\* looked at; the fourth callback answers 201
CreateModulePermission ==
  \E c \in DOMAIN calls :
    /\ at(c, {"POST /modules"}, "permissions")
    /\ LET call == calls[c]
           id   == lastID("permissions")
           ok   == canInsertPermission(permissions, modules, actions[call.i], call.found)
           last == call.i = Len(actions)
       IN  /\ IF ok
              THEN /\ permissions' = With(permissions, id,
                                          [action |-> actions[call.i],
                                           module_id |-> call.found])
                   /\ sqlite_sequence' = [sqlite_sequence EXCEPT !.permissions = id]
              ELSE UNCHANGED <<permissions, sqlite_sequence>>
           /\ setCall(c,
                [call EXCEPT
                   !.i = call.i + 1,
                   !.pc = IF last THEN "done" ELSE "permissions",
                   !.inserted = IF ok THEN call.inserted + 1 ELSE call.inserted,
                   !.failures = IF ok THEN call.failures ELSE call.failures + 1,
                   !.res = IF last THEN Response(201, "", {call.found}) ELSE call.res])
    /\ UNCHANGED <<users, groups, roles, modules,
                   user_groups, group_roles, role_permissions>>
    /\ notServing

(* ---- POST /permissions ---- *)
\* db.get('SELECT id FROM modules WHERE id = ?')
CreatePermissionSelectModule ==
  \E c \in DOMAIN calls :
    /\ at(c, {"POST /permissions"}, "handler")
    /\ LET call == calls[c]
       IN  setCall(c, IF call.body.module_id \notin DOMAIN modules
                      THEN respond(call, 400, "Module not found")
                      ELSE [call EXCEPT !.pc = "existing"])
    /\ UNCHANGED tables
    /\ notServing

\* db.get('SELECT id FROM permissions WHERE action = ? AND module_id = ?')
CreatePermissionSelectExisting ==
  \E c \in DOMAIN calls :
    /\ at(c, {"POST /permissions"}, "existing")
    /\ LET call == calls[c]
           existing == \E x \in DOMAIN permissions : clash("permissions", call.body, permissions[x])
       IN  setCall(c, IF existing THEN respond(call, 400, alreadyExists("permissions"))
                      ELSE [call EXCEPT !.pc = "insert"])
    /\ UNCHANGED tables
    /\ notServing

\* db.run('INSERT INTO permissions (action, module_id) VALUES (?, ?)')
CreatePermissionInsert ==
  \E c \in DOMAIN calls :
    /\ at(c, {"POST /permissions"}, "insert")
    /\ LET call == calls[c]
           id  == lastID("permissions")
           row == requestedRow("permissions", call.body, call.body)
       IN  IF constraintFails("permissions", id, row)
           THEN /\ setCall(c, respond(call, 500, "Failed to create permission"))
                /\ UNCHANGED tables
           ELSE /\ permissions' = With(permissions, id, row)
                /\ sqlite_sequence' = [sqlite_sequence EXCEPT !.permissions = id]
                /\ UNCHANGED <<users, groups, roles, modules,
                               user_groups, group_roles, role_permissions>>
                /\ setCall(c, [call EXCEPT !.pc = "done",
                                           !.res = Response(201, "", {id})])
    /\ notServing

(* ---- PUT /users/:id, /groups/:id, /roles/:id, /modules/:id, /permissions/:id ---- *)
updateRoutes ==
  {"PUT /users/:id", "PUT /groups/:id", "PUT /roles/:id", "PUT /modules/:id",
   "PUT /permissions/:id"}

rowNotFound(tbl) ==
  CASE tbl = "users" -> "User not found"
    [] tbl = "groups" -> "Group not found"
    [] tbl = "roles" -> "Role not found"
    [] tbl = "modules" -> "Module not found"
    [] tbl = "permissions" -> "Permission not found"

\* where a user update goes after its username check
afterUsername(call) ==
  IF call.body.email # None THEN [call EXCEPT !.pc = "email"]
  ELSE [call EXCEPT !.pc = "update"]

\* db.get('SELECT * FROM <table> WHERE id = ?'); PUT /permissions/:id checks
\* validActions.includes(action) before it and keeps permission.module_id
UpdateSelectRow ==
  \E c \in DOMAIN calls :
    /\ at(c, updateRoutes, "handler")
    /\ LET call == calls[c]
           tbl == routeTable(call.route)
           b == call.body
       IN  setCall(c,
             IF tbl = "permissions" /\ b.action \notin validActions
             THEN respond(call, 400, "Invalid action")
             ELSE IF call.id \notin DOMAIN entityTable(tbl)
             THEN respond(call, 404, rowNotFound(tbl))
             ELSE IF tbl = "permissions"
             THEN [call EXCEPT !.pc = "taken", !.found = permissions[call.id].module_id]
             ELSE IF tbl # "users" THEN [call EXCEPT !.pc = "taken"]
             ELSE IF b.username # None THEN [call EXCEPT !.pc = "username"]
             ELSE IF b.email # None \/ b.password THEN afterUsername(call)
             ELSE respond(call, 400, "No valid fields to update"))
    /\ UNCHANGED tables
    /\ notServing

\* db.get('SELECT id FROM <table> WHERE name = ? AND id != ?') /
\* db.get('SELECT id FROM permissions WHERE action = ? AND module_id = ? AND id != ?')
UpdateSelectTaken ==
  \E c \in DOMAIN calls :
    /\ at(c, updateRoutes \ {"PUT /users/:id"}, "taken")
    /\ LET call == calls[c]
           tbl == routeTable(call.route)
           row == requestedRow(tbl, call.body, [module_id |-> call.found])
           taken == \E x \in (DOMAIN entityTable(tbl)) \ {call.id} :
                      clash(tbl, row, entityTable(tbl)[x])
       IN  setCall(c, IF taken
                      THEN respond(call, 400,
                             IF tbl = "permissions"
                             THEN "Permission with this action already exists for this module"
                             ELSE alreadyExists(tbl))
                      ELSE [call EXCEPT !.pc = "update"])
    /\ UNCHANGED tables
    /\ notServing

\* db.get('SELECT id FROM users WHERE username = ? AND id != ?')
UpdateUserSelectUsername ==
  \E c \in DOMAIN calls :
    /\ at(c, {"PUT /users/:id"}, "username")
    /\ LET call == calls[c]
           taken == \E x \in (DOMAIN users) \ {call.id} :
                      users[x].username = call.body.username
       IN  setCall(c, IF taken THEN respond(call, 400, "Username already exists")
                      ELSE afterUsername(call))
    /\ UNCHANGED tables
    /\ notServing

\* db.get('SELECT id FROM users WHERE email = ? AND id != ?')
UpdateUserSelectEmail ==
  \E c \in DOMAIN calls :
    /\ at(c, {"PUT /users/:id"}, "email")
    /\ LET call == calls[c]
           taken == \E x \in (DOMAIN users) \ {call.id} : users[x].email = call.body.email
       IN  setCall(c, IF taken THEN respond(call, 400, "Email already exists")
                      ELSE [call EXCEPT !.pc = "update"])
    /\ UNCHANGED tables
    /\ notServing

\* db.run('UPDATE <table> SET ... WHERE id = ?'): 500 on err, else 200, also
\* when the row is gone and nothing was changed
UpdateRun ==
  \E c \in DOMAIN calls :
    /\ at(c, updateRoutes, "update")
    /\ LET call == calls[c]
           tbl == routeTable(call.route)
           rows == entityTable(tbl)
       IN  IF call.id \notin DOMAIN rows
           THEN /\ setCall(c, respond(call, 200, ""))
                /\ UNCHANGED tables
           ELSE LET row == requestedRow(tbl, call.body, rows[call.id])
                IN  IF constraintFails(tbl, call.id, row)
                    THEN /\ setCall(c, respond(call, 500, "Failed to update " \o rowName(tbl)))
                         /\ UNCHANGED tables
                    ELSE /\ writeEntity(tbl, [rows EXCEPT ![call.id] = row])
                         /\ UNCHANGED <<user_groups, group_roles, role_permissions,
                                        sqlite_sequence>>
                         /\ setCall(c, respond(call, 200, ""))
    /\ notServing

(* ---- the requests in flight ---- *)
\* the requests a token holder (for /register: anyone) may have in flight;
\* every body is one its route's schema accepts
ConcurrentRequests(caller) ==
  {Request(route, caller, adminGroupId, [ids |-> ids]) :
     route \in linkRoutes, ids \in ConcurrentIdLists}
  \cup {Request(route, caller, id, NoBody) : route \in deleteRoutes, id \in ConcurrentIds}
  \cup {Request("GET /me/permissions", caller, NoId, NoBody),
        Request("POST /simulate-action", caller, NoId,
                [userId |-> adminUserId, module |-> "Users", action |-> "read"])}
  \cup {Request("POST /users", caller, NoId, [username |-> u, email |-> e]) :
          u \in Usernames, e \in Emails}
  \cup {Request("POST /register", Anonymous, NoId,
                [username |-> "alice", email |-> "alice@example.com"])}
  \cup {Request("POST /groups", caller, NoId, [name |-> n]) : n \in GroupNames}
  \cup {Request("POST /roles", caller, NoId, [name |-> n]) : n \in RoleNames}
  \cup {Request("POST /modules", caller, NoId, [name |-> n]) :
          n \in {"Permissions", "Billing"}}
  \cup {Request("POST /permissions", caller, NoId,
                [action |-> "create", module_id |-> m]) : m \in {1, lastID("modules")}}
  \cup {Request(route, caller, id, [name |-> n]) :
          route \in {"PUT /groups/:id"}, id \in ConcurrentIds, n \in GroupNames}
  \cup {Request(route, caller, id, [name |-> n]) :
          route \in {"PUT /roles/:id"}, id \in ConcurrentIds, n \in RoleNames}
  \cup {Request(route, caller, id, [name |-> n]) :
          route \in {"PUT /modules/:id"}, id \in ConcurrentIds,
          n \in {"Users", "Billing"}}
  \cup {Request("PUT /permissions/:id", caller, id, [action |-> a]) :
          id \in ConcurrentIds, a \in {"read", "execute"}}
  \cup {Request("PUT /users/:id", caller, id, b) :
          id \in ConcurrentIds,
          b \in {[username |-> "alice", email |-> None, password |-> FALSE],
                 [username |-> None, email |-> "alice@example.com", password |-> FALSE],
                 [username |-> None, email |-> None, password |-> TRUE],
                 [username |-> None, email |-> None, password |-> FALSE]}}

\* a request arrives while at most MaxCalls - 1 others are in flight
Arrive ==
  /\ Len(calls) < MaxCalls
  /\ \E caller \in tokenHolders : \E q \in ConcurrentRequests(caller) :
       calls' = Append(calls, Call(q))
  /\ UNCHANGED tables
  /\ notServing

InitInterleaved ==
  /\ seedDatabase \/ seedAndUser
  /\ foreign_keys \in BOOLEAN
  /\ served = 0
  /\ req = NoRequest
  /\ res = NoResponse
  /\ calls = <<>>
  /\ boot = listening

NextInterleaved ==
  \/ Arrive
  \/ Gate
  \/ LinkSelectOwner
  \/ LinkSelectCounterparts
  \/ LinkClear
  \/ LinkInsert
  \/ DeleteSelect
  \/ DeleteRun
  \/ MePermissionsQuery
  \/ SimulateActionQuery
  \/ CreateSelect
  \/ CreateInsert
  \/ CreateModulePermission
  \/ CreatePermissionSelectModule
  \/ CreatePermissionSelectExisting
  \/ CreatePermissionInsert
  \/ UpdateSelectRow
  \/ UpdateSelectTaken
  \/ UpdateUserSelectUsername
  \/ UpdateUserSelectEmail
  \/ UpdateRun

SpecInterleaved == InitInterleaved /\ [][NextInterleaved]_vars

(* ------------------------------------------------------------------ *)
(* Vocabulary of the properties of requests in flight                  *)
(* ------------------------------------------------------------------ *)
\* the call ran its last statement
done(call) == call.pc = "done"

\* the association table of a link route as the seed leaves it
seedLinks(route) ==
  CASE route = "POST /groups/:id/users" -> {<<adminUserId, adminGroupId>>}
    [] route = "POST /groups/:id/roles" -> {<<adminGroupId, adminRoleId>>}
    [] route = "POST /roles/:id/permissions" ->
         {<<adminRoleId, p>> : p \in DOMAIN seedPermissions}

\* the pairs a link call asks for
pairsOf(call) == linkPairs(call.route, call.id, Range(call.body.ids))

\* a link call by the admin whose owner and counterparts all exist
validLink(call) ==
  /\ call.route \in linkRoutes
  /\ call.caller = adminUserId
  /\ call.id \in linkOwners(call.route)
  /\ Range(call.body.ids) \subseteq linkCounterparts(call.route)

(* ------------------------------------------------------------------ *)
(* C13                                                                 *)
(* ------------------------------------------------------------------ *)
multiRowRoutes == linkRoutes \cup {"POST /modules"}

\* C13: a multi-row call (a link, a module creation) that has reported
\* success had none of its inserts fail, and one that has reported an error
\* has inserted, and inserts, no row.
C13_NoPartialApplication ==
  \A c \in DOMAIN calls :
    (calls[c].route \in multiRowRoutes /\ responded(calls[c])) =>
       IF calls[c].res.status \in {200, 201}
       THEN calls[c].failures = 0
       ELSE calls[c].inserted = 0

(* ------------------------------------------------------------------ *)
(* C14                                                                 *)
(* ------------------------------------------------------------------ *)
\* C14: when two valid link calls of the admin on the same owner with
\* overlapping counterpart lists have both run to their end, both were
\* answered 200 and the relation is the seeded one united with the pairs of
\* both.
C14_ConcurrentLinksBothSucceed ==
  \A c, d \in DOMAIN calls :
    ( /\ c # d
      /\ validLink(calls[c]) /\ validLink(calls[d])
      /\ calls[c].route = calls[d].route
      /\ calls[c].id = calls[d].id
      /\ Range(calls[c].body.ids) \cap Range(calls[d].body.ids) # {}
      /\ done(calls[c]) /\ done(calls[d]) )
    => /\ calls[c].res.status = 200
       /\ calls[d].res.status = 200
       /\ linkTable(calls[c].route) =
            seedLinks(calls[c].route) \cup pairsOf(calls[c]) \cup pairsOf(calls[d])

(* ------------------------------------------------------------------ *)
(* C15                                                                 *)
(* ------------------------------------------------------------------ *)
\* the call is a permission-map query or a permission check for the admin
readsAdmin(call) ==
  \/ call.route = "GET /me/permissions" /\ call.caller = adminUserId
  \/ call.route = "POST /simulate-action" /\ call.body.userId = adminUserId

\* C15: while the only other request in flight is a valid link that re-links
\* pairs the seed linked (so the admin holds every seeded permission before
\* and after it), a permission-map query of the admin reports every seeded
\* module with its four actions and a permission check of the admin reports
\* the permission as held.
C15_ReadNeverSeesClearedLink ==
  \A c, d \in DOMAIN calls :
    ( /\ c # d
      /\ validLink(calls[c])
      /\ pairsOf(calls[c]) \subseteq seedLinks(calls[c].route)
      /\ readsAdmin(calls[d])
      /\ responded(calls[d]) )
    => IF calls[d].route = "GET /me/permissions"
       THEN \A m \in Range(seedModules) :
              /\ m \in DOMAIN calls[d].res.permissions
              /\ Range(calls[d].res.permissions[m]) = validActions
       ELSE calls[d].res.hasPermission

(* ------------------------------------------------------------------ *)
(* C16                                                                 *)
(* ------------------------------------------------------------------ *)
\* call d deletes the owner or one of the counterparts of link call c
deletesEndOf(d, c) ==
  LET link == calls[c].route
      del  == calls[d].route
  IN  \/ /\ del = (IF link = "POST /roles/:id/permissions"
                   THEN "DELETE /roles/:id" ELSE "DELETE /groups/:id")
         /\ calls[d].id = calls[c].id
      \/ /\ del = (CASE link = "POST /groups/:id/users" -> "DELETE /users/:id"
                     [] link = "POST /groups/:id/roles" -> "DELETE /roles/:id"
                     [] link = "POST /roles/:id/permissions" -> "DELETE /permissions/:id")
         /\ calls[d].id \in Range(calls[c].body.ids)

\* C16: when the other request in flight deletes the owner or a counterpart
\* of a link call, no insert of the link writes a row whose owner or
\* counterpart does not exist, and the link is not answered with the failure
\* of an insert: its existence checks and its inserts act as one step.
C16_LinkAtomicAgainstDelete ==
  [][ \A c, d \in DOMAIN calls :
        ( /\ calls[c].route \in linkRoutes
          /\ calls[c].pc = "insert"
          /\ calls[d].route \in deleteRoutes
          /\ deletesEndOf(d, c)
          /\ calls'[c].i > calls[c].i )
        => /\ calls'[c].inserted > calls[c].inserted =>
                /\ calls[c].id \in linkOwners(calls[c].route)
                /\ calls[c].body.ids[calls[c].i] \in linkCounterparts(calls[c].route)
           /\ calls'[c].res.status # 500 ]_vars

(* ------------------------------------------------------------------ *)
(* C19                                                                 *)
(* ------------------------------------------------------------------ *)
\* no two rows of table tbl clash on a unique field
uniqueRows(tbl) ==
  \A x, y \in DOMAIN entityTable(tbl) :
    x # y => ~ clash(tbl, entityTable(tbl)[x], entityTable(tbl)[y])

\* C19: no two users share a username or an email, no two groups, no two
\* roles and no two modules share a name, and no two permissions share
\* (action, module).
C19_UniqueFields ==
  \A tbl \in {"users", "groups", "roles", "modules", "permissions"} : uniqueRows(tbl)

\* two POST /groups for the same new name ran interleaved: both passed the
\* SELECT, one INSERT succeeded and the other failed on UNIQUE
C19_Witness ==
  /\ Len(calls) = 2
  /\ calls[1].route = "POST /groups" /\ calls[2].route = "POST /groups"
  /\ calls[1].body.name = "Finance" /\ calls[2].body.name = "Finance"
  /\ calls[1].res.status = 201
  /\ calls[2].res.status = 500
  /\ Cardinality({g \in DOMAIN groups : groups[g].name = "Finance"}) = 1

(* ------------------------------------------------------------------ *)
(* C20                                                                 *)
(* ------------------------------------------------------------------ *)
conflictErrors ==
  {alreadyExists(tbl) : tbl \in {"users", "groups", "roles", "modules", "permissions"}}

\* C20: of two creates on the same route whose unique fields collide, at
\* most one is answered 201 and every other one that reached its handler is
\* answered with the conflict error.
C20_LoserGetsConflict ==
  \A c, d \in DOMAIN calls :
    ( /\ c # d
      /\ calls[c].route = calls[d].route
      /\ calls[c].route \in createRoutes \cup {"POST /permissions"}
      /\ clash(routeTable(calls[c].route), calls[c].body, calls[d].body)
      /\ done(calls[c]) /\ done(calls[d])
      /\ calls[c].res.status # 403 /\ calls[d].res.status # 403 )
    => /\ ~ (calls[c].res.status = 201 /\ calls[d].res.status = 201)
       /\ calls[c].res.status # 201 =>
            (calls[c].res.status = 400 /\ calls[c].res.error \in conflictErrors)

(* ------------------------------------------------------------------ *)
(* C21                                                                 *)
(* ------------------------------------------------------------------ *)
\* C21: a DELETE /users/{id} whose target is the caller's own existing
\* account, sent by a caller holding Users:delete, is answered with the
\* self-deletion error and leaves the users table and the memberships as
\* they were; and no request removes the user row of its own caller.
C21_NoSelfDeletion ==
  [][ handles =>
        /\ ( /\ req'.route = "DELETE /users/:id"
             /\ req'.id = req'.caller
             /\ req'.caller \in DOMAIN users
             /\ checkPermission(req'.caller, "Users", "delete") )
           => /\ res'.status = 400
              /\ res'.error = "Cannot delete your own account"
              /\ UNCHANGED tables
        /\ req'.caller \in DOMAIN users => req'.caller \in DOMAIN users' ]_vars

\* the admin, holding Users:delete, asked for the deletion of the admin
\* account and is still there with the membership of the seed
C21_Witness ==
  /\ answered("DELETE /users/:id")
  /\ req.id = req.caller
  /\ req.caller = adminUserId
  /\ res.status = 400
  /\ res.error = "Cannot delete your own account"
  /\ adminUserId \in DOMAIN users
  /\ <<adminUserId, adminGroupId>> \in user_groups
  /\ checkPermission(adminUserId, "Users", "delete")

(* ------------------------------------------------------------------ *)
(* Start of the process: initializeDatabase, seedDatabase, startServer *)
(*                                                                     *)
(* One step is one statement of database/setup.js with its callback.   *)
(* A statement may fail (the engine reports an error).  A statement    *)
(* given a callback hands the error to it; a statement given none      *)
(* makes sqlite3 emit 'error' on the Statement object, and since no    *)
(* listener is registered anywhere the event is thrown as an uncaught  *)
(* exception, which ends the process.                                  *)
(* ------------------------------------------------------------------ *)
\* the CREATE TABLE statements of initializeDatabase
createTables ==
  <<"users", "groups", "roles", "modules", "permissions",
    "user_groups", "group_roles", "role_permissions">>

\* reject(err): startServer's catch, and the seed script's, call process.exit(1)
reject(b) == [b EXCEPT !.process = "exited", !.code = 1, !.pc = "rejected"]

\* an 'error' event without listener: the process dies of the uncaught exception
unhandledError(b) == [b EXCEPT !.process = "exited", !.code = 1, !.pc = "error event"]

\* the tables stay as they are and no request is served
seedStep(b) ==
  /\ boot' = b
  /\ UNCHANGED <<foreign_keys, served, req, res, calls>>

\* the seed statement pc runs next
seeding(pc) == boot.process = "starting" /\ boot.pc = pc

\* db.run(CREATE TABLE ...): only the last one is given a callback, which
\* rejects on an error and calls seedDatabase otherwise
createTable ==
  /\ seeding("createTables")
  /\ UNCHANGED tables
  /\ \E ok \in BOOLEAN :
       seedStep(IF ~ ok
                THEN IF boot.created + 1 = Len(createTables)
                     THEN reject(boot) ELSE unhandledError(boot)
                ELSE IF boot.created + 1 = Len(createTables)
                THEN [boot EXCEPT !.created = @ + 1, !.pc = "moduleStmt", !.i = 1]
                ELSE [boot EXCEPT !.created = @ + 1])

\* moduleStmt.run(module) for the i-th default module; finalize's callback
\* runs after the last
moduleStmtRun ==
  /\ seeding("moduleStmt")
  /\ \E ok \in BOOLEAN :
       IF ~ ok THEN UNCHANGED tables /\ seedStep(unhandledError(boot))
       ELSE /\ modules' = With(modules, lastID("modules"), [name |-> seedModules[boot.i]])
            /\ sqlite_sequence' = [sqlite_sequence EXCEPT !.modules = @ + 1]
            /\ UNCHANGED <<users, groups, roles, permissions,
                           user_groups, group_roles, role_permissions>>
            /\ seedStep(IF boot.i = Len(seedModules)
                        THEN [boot EXCEPT !.pc = "selectModules", !.i = 1]
                        ELSE [boot EXCEPT !.i = @ + 1])

\* the order of the names in the index of UNIQUE(name)
seedModulesByName == <<"Groups", "Modules", "Permissions", "Roles", "Users">>

\* SELECT id FROM modules has no ORDER BY: the rows come in the order of
\* the table (by id) or in the order of the index on name that covers the
\* query
moduleRowOrders ==
  { [k \in 1..Cardinality(DOMAIN modules) |-> k],
    [k \in 1..Cardinality(DOMAIN modules) |->
       CHOOSE m \in DOMAIN modules : modules[m].name = seedModulesByName[k]] }

\* db.all('SELECT id FROM modules', (err, moduleRows) => ...)
selectModules ==
  /\ seeding("selectModules")
  /\ UNCHANGED tables
  /\ \/ seedStep(reject(boot))
     \/ \E moduleRows \in moduleRowOrders :
          seedStep([boot EXCEPT !.rows = moduleRows, !.pc = "permStmt", !.i = 1])

\* permStmt.run(action, module.id) once for each module row, the loop over
\* the actions left out
permStmtRunOncePerModule ==
  /\ seeding("permStmt")
  /\ \E ok \in BOOLEAN :
       IF ~ ok THEN UNCHANGED tables /\ seedStep(unhandledError(boot))
       ELSE /\ permissions' =
                 With(permissions, lastID("permissions"),
                      [action |-> actions[1], module_id |-> boot.rows[boot.i]])
            /\ sqlite_sequence' = [sqlite_sequence EXCEPT !.permissions = @ + 1]
            /\ UNCHANGED <<users, groups, roles, modules,
                           user_groups, group_roles, role_permissions>>
            /\ seedStep(IF boot.i = Len(boot.rows)
                        THEN [boot EXCEPT !.pc = "insertRole", !.i = 1]
                        ELSE [boot EXCEPT !.i = @ + 1])

\* permStmt.run(action, module.id): for each module row, for each action
permStmtRun ==
  /\ seeding("permStmt")
  /\ \E ok \in BOOLEAN :
       IF ~ ok THEN UNCHANGED tables /\ seedStep(unhandledError(boot))
       ELSE /\ permissions' =
                 With(permissions, lastID("permissions"),
                      [action    |-> actions[((boot.i - 1) % Len(actions)) + 1],
                       module_id |-> boot.rows[((boot.i - 1) \div Len(actions)) + 1]])
            /\ sqlite_sequence' = [sqlite_sequence EXCEPT !.permissions = @ + 1]
            /\ UNCHANGED <<users, groups, roles, modules,
                           user_groups, group_roles, role_permissions>>
            /\ seedStep(IF boot.i = Len(boot.rows) * Len(actions)
                        THEN [boot EXCEPT !.pc = "insertRole", !.i = 1]
                        ELSE [boot EXCEPT !.i = @ + 1])

\* db.run('INSERT INTO roles ...', ['Admin', ...], function(err) ...)
insertAdminRole ==
  /\ seeding("insertRole")
  /\ \E ok \in BOOLEAN :
       IF ~ ok THEN UNCHANGED tables /\ seedStep(reject(boot))
       ELSE /\ roles' = With(roles, lastID("roles"), [name |-> "Admin"])
            /\ sqlite_sequence' = [sqlite_sequence EXCEPT !.roles = @ + 1]
            /\ UNCHANGED <<users, groups, modules, permissions,
                           user_groups, group_roles, role_permissions>>
            /\ seedStep([boot EXCEPT !.role = lastID("roles"), !.pc = "selectPermissions"])

\* db.all('SELECT id FROM permissions', (err, permRows) => ...)
selectPermissions ==
  /\ seeding("selectPermissions")
  /\ UNCHANGED tables
  /\ \/ seedStep(reject(boot))
     \/ seedStep([boot EXCEPT
                    !.rows = [k \in 1..Cardinality(DOMAIN permissions) |-> k],
                    !.pc = "rolePermStmt", !.i = 1])

\* rolePermStmt.run(adminRoleId, perm.id) for each permission row
rolePermStmtRun ==
  /\ seeding("rolePermStmt")
  /\ \E ok \in BOOLEAN :
       IF ~ ok THEN UNCHANGED tables /\ seedStep(unhandledError(boot))
       ELSE /\ role_permissions' = role_permissions \cup {<<boot.role, boot.rows[boot.i]>>}
            /\ UNCHANGED <<users, groups, roles, modules, permissions,
                           user_groups, group_roles, sqlite_sequence>>
            /\ seedStep(IF boot.i = Len(boot.rows)
                        THEN [boot EXCEPT !.pc = "insertGroup", !.i = 1]
                        ELSE [boot EXCEPT !.i = @ + 1])

\* db.run('INSERT INTO groups ...', ['Administrators', ...], function(err) ...)
insertAdminGroup ==
  /\ seeding("insertGroup")
  /\ \E ok \in BOOLEAN :
       IF ~ ok THEN UNCHANGED tables /\ seedStep(reject(boot))
       ELSE /\ groups' = With(groups, lastID("groups"), [name |-> "Administrators"])
            /\ sqlite_sequence' = [sqlite_sequence EXCEPT !.groups = @ + 1]
            /\ UNCHANGED <<users, roles, modules, permissions,
                           user_groups, group_roles, role_permissions>>
            /\ seedStep([boot EXCEPT !.group = lastID("groups"), !.pc = "insertGroupRole"])

\* insertGroupRole with a callback that does not look at err
insertGroupRoleUnchecked ==
  /\ seeding("insertGroupRole")
  /\ \E ok \in BOOLEAN :
       /\ group_roles' = IF ok THEN group_roles \cup {<<boot.group, boot.role>>}
                         ELSE group_roles
       /\ UNCHANGED <<users, groups, roles, modules, permissions,
                      user_groups, role_permissions, sqlite_sequence>>
       /\ seedStep([boot EXCEPT !.pc = "hash"])

\* db.run('INSERT INTO group_roles ...', [adminGroupId, adminRoleId], async (err) => ...)
insertGroupRole ==
  /\ seeding("insertGroupRole")
  /\ \E ok \in BOOLEAN :
       IF ~ ok THEN UNCHANGED tables /\ seedStep(reject(boot))
       ELSE /\ group_roles' = group_roles \cup {<<boot.group, boot.role>>}
            /\ UNCHANGED <<users, groups, roles, modules, permissions,
                           user_groups, role_permissions, sqlite_sequence>>
            /\ seedStep([boot EXCEPT !.pc = "hash"])

\* await bcrypt.hash('admin123', 10), inside try ... catch (hashError)
hashAdminPassword ==
  /\ seeding("hash")
  /\ UNCHANGED tables
  /\ \E ok \in BOOLEAN :
       seedStep(IF ok THEN [boot EXCEPT !.pc = "insertUser"] ELSE reject(boot))

\* db.run('INSERT INTO users ...', ['admin', 'joydaven@gmail.com', ...], function(err) ...)
insertAdminUser ==
  /\ seeding("insertUser")
  /\ \E ok \in BOOLEAN :
       IF ~ ok THEN UNCHANGED tables /\ seedStep(reject(boot))
       ELSE /\ users' = With(users, lastID("users"),
                             [username |-> "admin", email |-> "joydaven@gmail.com"])
            /\ sqlite_sequence' = [sqlite_sequence EXCEPT !.users = @ + 1]
            /\ UNCHANGED <<groups, roles, modules, permissions,
                           user_groups, group_roles, role_permissions>>
            /\ seedStep([boot EXCEPT !.user = lastID("users"), !.pc = "insertUserGroup"])

\* db.run('INSERT INTO user_groups ...', [adminUserId, adminGroupId], (err) => ...):
\* reject(err), or resolve()
insertUserGroup ==
  /\ seeding("insertUserGroup")
  /\ \E ok \in BOOLEAN :
       IF ~ ok THEN UNCHANGED tables /\ seedStep(reject(boot))
       ELSE /\ user_groups' = user_groups \cup {<<boot.user, boot.group>>}
            /\ UNCHANGED <<users, groups, roles, modules, permissions,
                           group_roles, role_permissions, sqlite_sequence>>
            /\ seedStep([boot EXCEPT !.pc = "resolved"])

\* app.listen without awaiting initializeDatabase
listenWithoutAwait ==
  /\ boot.process = "starting"
  /\ ~ boot.script
  /\ UNCHANGED tables
  /\ seedStep([boot EXCEPT !.process = "listening"])

\* startServer after await initializeDatabase(): app.listen(PORT).  The
\* closures of seedDatabase are gone
listen ==
  /\ seeding("resolved")
  /\ ~ boot.script
  /\ UNCHANGED tables
  /\ seedStep(listening)

\* the seed script after initializeDatabase(): process.exit(0)
seedScriptExit ==
  /\ seeding("resolved")
  /\ boot.script
  /\ UNCHANGED tables
  /\ seedStep([boot EXCEPT !.process = "exited", !.code = 0])

\* the listening app handles requests, one at a time
serve ==
  /\ boot.process = "listening"
  /\ Next

\* new sqlite3.Database(':memory:'): no table yet; node runs the server
\* (startServer) or the seed script
InitStartup ==
  /\ users = <<>> /\ groups = <<>> /\ roles = <<>>
  /\ modules = <<>> /\ permissions = <<>>
  /\ user_groups = {} /\ group_roles = {} /\ role_permissions = {}
  /\ sqlite_sequence = [users |-> 0, groups |-> 0, roles |-> 0,
                        modules |-> 0, permissions |-> 0]
  /\ foreign_keys \in BOOLEAN
  /\ served = 0
  /\ req = NoRequest
  /\ res = NoResponse
  /\ calls = <<>>
  /\ \E script \in BOOLEAN :
       boot = [script |-> script, process |-> "starting", code |-> 0,
               pc |-> "createTables", created |-> 0, i |-> 1, rows |-> <<>>,
               role |-> 0, group |-> 0, user |-> 0]

NextStartup ==
  \/ createTable
  \/ moduleStmtRun
  \/ selectModules
  \/ permStmtRun
  \/ insertAdminRole
  \/ selectPermissions
  \/ rolePermStmtRun
  \/ insertAdminGroup
  \/ insertGroupRole
  \/ hashAdminPassword
  \/ insertAdminUser
  \/ insertUserGroup
  \/ listen
  \/ seedScriptExit
  \/ serve

SpecStartup == InitStartup /\ [][NextStartup]_vars

(* ------------------------------------------------------------------ *)
(* C22                                                                 *)
(* ------------------------------------------------------------------ *)
\* initializeDatabase has resolved and no request was handled yet
freshlySeeded == boot.pc = "resolved" /\ served = 0 /\ req = NoRequest

\* the permissions of module m
permissionsOf(m) == {p \in DOMAIN permissions : permissions[p].module_id = m}

\* C22: immediately after a successful seed of an empty store there are
\* exactly the 5 modules Users, Groups, Roles, Modules, Permissions, exactly
\* 20 permissions (create, read, update, delete of each module), exactly one
\* role, Admin, linked to all 20 permissions, exactly one group,
\* Administrators, linked to that role, and exactly one user, admin, member
\* of that group; the permission map of admin has all 5 modules, each with
\* all 4 actions.
C22_FreshSeed ==
  freshlySeeded =>
    /\ Cardinality(DOMAIN modules) = 5
    /\ {modules[m].name : m \in DOMAIN modules} =
         {"Users", "Groups", "Roles", "Modules", "Permissions"}
    /\ Cardinality(DOMAIN permissions) = 20
    /\ \A m \in DOMAIN modules :
         /\ Cardinality(permissionsOf(m)) = 4
         /\ {permissions[p].action : p \in permissionsOf(m)} =
              {"create", "read", "update", "delete"}
    /\ Cardinality(DOMAIN roles) = 1
    /\ \A r \in DOMAIN roles :
         /\ roles[r].name = "Admin"
         /\ role_permissions = {<<r, p>> : p \in DOMAIN permissions}
         /\ Cardinality(DOMAIN groups) = 1
         /\ \A g \in DOMAIN groups :
              /\ groups[g].name = "Administrators"
              /\ group_roles = {<<g, r>>}
              /\ Cardinality(DOMAIN users) = 1
              /\ \A u \in DOMAIN users :
                   /\ users[u].username = "admin"
                   /\ user_groups = {<<u, g>>}
                   /\ DOMAIN getUserPermissions(u) =
                        {"Users", "Groups", "Roles", "Modules", "Permissions"}
                   /\ \A name \in DOMAIN getUserPermissions(u) :
                        Range(getUserPermissions(u)[name]) =
                          {"create", "read", "update", "delete"}

\* the server listens on a store seeded with the module rows read in the
\* order of their names: permission 1 belongs to Groups
C22_Witness ==
  /\ freshlySeeded
  /\ boot.process = "listening"
  /\ 1 \in DOMAIN permissions
  /\ permissions[1].module_id \in DOMAIN modules
  /\ modules[permissions[1].module_id].name = "Groups"
  /\ adminUserId \in DOMAIN users

(* ------------------------------------------------------------------ *)
(* C23                                                                 *)
(* ------------------------------------------------------------------ *)
\* this step is a statement of the seed sequence
seedStatement == boot.process = "starting" /\ boot.pc # "resolved" /\ boot' # boot

\* C23: seeding runs once per process and has finished (with success, or by
\* ending the process) before the server accepts its first request: a
\* request is handled only by a listening process whose seed sequence has
\* completed, no seed statement runs once a request was handled, and a
\* completed or aborted seed sequence never runs again.
C23_SeedBeforeRequests ==
  [][ /\ handles => /\ boot.process = "listening"
                    /\ boot.pc = "resolved"
                    /\ boot' = boot
      /\ seedStatement => served = 0 /\ req = NoRequest /\ req' = NoRequest
      /\ boot.pc \in {"resolved", "rejected", "error event"} => boot'.pc = boot.pc
      /\ boot.process = "exited" => UNCHANGED vars ]_vars

\* the server, freshly seeded, has answered its first request
C23_Witness ==
  /\ served = 1
  /\ req # NoRequest
  /\ boot.process = "listening"
  /\ boot.pc = "resolved"
  /\ adminUserId \in DOMAIN users

(* ------------------------------------------------------------------ *)
(* C24                                                                 *)
(* ------------------------------------------------------------------ *)
\* every row the seed sequence inserts has been written
everySeedRowWritten ==
  /\ boot.created = Len(createTables)
  /\ Cardinality(DOMAIN modules) = Len(seedModules)
  /\ Cardinality(DOMAIN permissions) = Len(seedModules) * Len(actions)
  /\ Cardinality(DOMAIN roles) = 1
  /\ Cardinality(role_permissions) = Len(seedModules) * Len(actions)
  /\ Cardinality(DOMAIN groups) = 1
  /\ Cardinality(group_roles) = 1
  /\ Cardinality(DOMAIN users) = 1
  /\ Cardinality(user_groups) = 1

\* C24: when a step of the seed sequence fails (a table creation or an insert
\* of a module, permission, role, role-permission, group, group-role, user
\* or membership row), the start is aborted and the server never serves a
\* request; initializeDatabase resolves only when every seed row has been
\* written, so the server never runs on a partially seeded store.
C24_NoPartialSeed ==
  /\ boot.pc \in {"rejected", "error event"} =>
       /\ boot.process = "exited"
       /\ boot.code # 0
       /\ served = 0
       /\ req = NoRequest
  /\ (boot.pc = "resolved" /\ served = 0) => everySeedRowWritten
  /\ (boot.process = "listening" \/ served > 0 \/ req # NoRequest) =>
       boot.pc = "resolved"

\* the seventh permission insert failed: the process ended on a store with
\* five modules and six permissions and never listened
C24_Witness ==
  /\ boot.pc = "error event"
  /\ boot.process = "exited"
  /\ Cardinality(DOMAIN modules) = 5
  /\ Cardinality(DOMAIN permissions) = 6
  /\ served = 0

(* ------------------------------------------------------------------ *)
(* C25                                                                 *)
(* ------------------------------------------------------------------ *)
\* C25: the hasPermission value simulate-action returns for (userId, module,
\* action) is the decision the permission-check middleware makes for that
\* triple on the same store, and simulate-action, the permission-map query
\* and a permission check that denies leave every table unchanged.
C25_SimulateAgreesWithCheck ==
  [][ handles =>
        /\ req'.route = "POST /simulate-action" =>
             /\ res'.status = 200
             /\ res'.hasPermission =
                  checkPermission(req'.body.userId, req'.body.module, req'.body.action)
             /\ UNCHANGED tables
        /\ req'.route = "GET /me/permissions" => UNCHANGED tables
        /\ res'.status = 403 => UNCHANGED tables ]_vars

\* the admin is said to hold read on Permissions, which the check grants
C25_Witness ==
  /\ answered("POST /simulate-action")
  /\ req.body.userId = adminUserId
  /\ req.body.module = "Permissions"
  /\ req.body.action = "read"
  /\ res.hasPermission
  /\ checkPermission(adminUserId, "Permissions", "read")

(* ------------------------------------------------------------------ *)
(* C26                                                                 *)
(* ------------------------------------------------------------------ *)
\* the answer simulate-action gives to an ordinary denial
denial == [status |-> 200, error |-> "", data |-> {}, hasPermission |-> FALSE]

\* C26: simulate-action for a userId that references no user, or for a
\* module name that references no module, answers hasPermission = false in
\* the shape of an ordinary denial, whatever the action: the response does
\* not tell whether the user or the module exists.
C26_SimulateHidesExistence ==
  betweenRequests =>
    \A userId \in AnyUser, M \in AnyModuleName, A \in validActions :
      ( \/ userId \notin DOMAIN users
        \/ \A m \in DOMAIN modules : modules[m].name # M )
      => simulateResponse(userId, M, A) = denial

(* ------------------------------------------------------------------ *)
(* The Billing scenario                                                *)
(*                                                                     *)
(* From the seeded store the admin creates the module Billing, the     *)
(* role Biller, the group Finance and the user alice, and links the    *)
(* Billing:read permission to Biller, Biller to Finance and alice to   *)
(* Finance.  Each request is sent once, a link after the creation of   *)
(* both its ends; the ids it carries are those the earlier responses   *)
(* gave.                                                               *)
(* ------------------------------------------------------------------ *)
\* the id of the row of tbl whose name is name (0 when there is none)
idOf(tbl, name) ==
  IF \E x \in DOMAIN tbl : tbl[x].name = name
  THEN CHOOSE x \in DOMAIN tbl : tbl[x].name = name
  ELSE 0

\* the id of the user named username (0 when there is none)
userIdOf(username) ==
  IF \E u \in DOMAIN users : users[u].username = username
  THEN CHOOSE u \in DOMAIN users : users[u].username = username
  ELSE 0

\* the id of the permission action of the module named name (0 when none)
permissionIdOf(name, action) ==
  LET found == {p \in DOMAIN permissions :
                  /\ permissions[p].action = action
                  /\ permissions[p].module_id = idOf(modules, name)}
  IN  IF found = {} THEN 0 ELSE CHOOSE p \in found : TRUE

\* the server waits for a request
idle == req = NoRequest

scenarioCreateModule ==
  /\ idle
  /\ idOf(modules, "Billing") = 0
  /\ CreateModule(adminUserId, "Billing")

scenarioCreateRole ==
  /\ idle
  /\ idOf(roles, "Biller") = 0
  /\ CreateRole(adminUserId, "Biller")

scenarioLinkPermission ==
  /\ idle
  /\ idOf(roles, "Biller") # 0
  /\ permissionIdOf("Billing", "read") # 0
  /\ <<idOf(roles, "Biller"), permissionIdOf("Billing", "read")>> \notin role_permissions
  /\ AssignPermissions(adminUserId, idOf(roles, "Biller"),
                       <<permissionIdOf("Billing", "read")>>)

scenarioCreateGroup ==
  /\ idle
  /\ idOf(groups, "Finance") = 0
  /\ CreateGroup(adminUserId, "Finance")

scenarioLinkRole ==
  /\ idle
  /\ idOf(groups, "Finance") # 0
  /\ idOf(roles, "Biller") # 0
  /\ <<idOf(groups, "Finance"), idOf(roles, "Biller")>> \notin group_roles
  /\ AssignRoles(adminUserId, idOf(groups, "Finance"), <<idOf(roles, "Biller")>>)

scenarioCreateUser ==
  /\ idle
  /\ userIdOf("alice") = 0
  /\ CreateUser(adminUserId, "alice", "alice@example.com")

scenarioRegister ==
  /\ idle
  /\ userIdOf("alice") = 0
  /\ Register("alice", "alice@example.com")

scenarioLinkUser ==
  /\ idle
  /\ idOf(groups, "Finance") # 0
  /\ userIdOf("alice") # 0
  /\ <<userIdOf("alice"), idOf(groups, "Finance")>> \notin user_groups
  /\ AssignUsers(adminUserId, idOf(groups, "Finance"), <<userIdOf("alice")>>)

NextScenario ==
  \/ scenarioCreateModule
  \/ scenarioCreateRole
  \/ scenarioLinkPermission
  \/ scenarioCreateGroup
  \/ scenarioLinkRole
  \/ scenarioCreateUser
  \/ scenarioRegister
  \/ scenarioLinkUser
  \/ Finish

SpecScenario == Init /\ [][NextScenario]_vars

(* ------------------------------------------------------------------ *)
(* C27                                                                 *)
(* ------------------------------------------------------------------ *)
\* the requests of the scenario, in the order of the claim
scenario ==
  <<"POST /modules", "POST /roles", "POST /roles/:id/permissions", "POST /groups",
    "POST /groups/:id/roles", "POST /users", "POST /groups/:id/users">>

\* every request of the scenario has been answered
scenarioOver == served = Len(scenario) /\ idle

\* C27: from a freshly seeded store, create module Billing, create role
\* Biller, link Biller to Billing:read, create group Finance, link Biller to
\* Finance, create user alice, link alice to Finance: every request
\* succeeds, and at the end Billing has exactly the four permissions create,
\* read, update, delete, alice holds read on Billing, no other action on
\* Billing and nothing on any other module.
C27_BillingScenario ==
  /\ ~ idle => res.status \in {200, 201}
  /\ scenarioOver =>
       /\ idOf(modules, "Billing") # 0
       /\ userIdOf("alice") # 0
       /\ Cardinality(permissionsOf(idOf(modules, "Billing"))) = 4
       /\ {permissions[p].action : p \in permissionsOf(idOf(modules, "Billing"))} =
            {"create", "read", "update", "delete"}
       /\ checkPermission(userIdOf("alice"), "Billing", "read")
       /\ \A A \in {"create", "update", "delete"} :
            ~ checkPermission(userIdOf("alice"), "Billing", A)
       /\ \A M \in AnyModuleName \ {"Billing"}, A \in validActions :
            ~ checkPermission(userIdOf("alice"), M, A)
       /\ DOMAIN getUserPermissions(userIdOf("alice")) = {"Billing"}

\* the scenario is over and its last request was the link of alice to Finance
C27_Witness ==
  /\ scenarioOver
  /\ <<userIdOf("alice"), idOf(groups, "Finance")>> \in user_groups
  /\ <<idOf(groups, "Finance"), idOf(roles, "Biller")>> \in group_roles
  /\ <<idOf(roles, "Biller"), permissionIdOf("Billing", "read")>> \in role_permissions
  /\ checkPermission(userIdOf("alice"), "Billing", "read")

(* ------------------------------------------------------------------ *)
(* A store in which a user with a membership was deleted               *)
(* ------------------------------------------------------------------ *)
\* the store after the seed and the admin's POST /users for alice,
\* POST /groups/1/users with alice's id and DELETE /users/2: the membership
\* of alice went with her only when foreign keys are enforced
seedAndDeletedUser ==
  /\ modules = [m \in 1..Len(seedModules) |-> [name |-> seedModules[m]]]
  /\ permissions = seedPermissions
  /\ roles = [r \in {adminRoleId} |-> [name |-> "Admin"]]
  /\ role_permissions = {<<adminRoleId, p>> : p \in DOMAIN seedPermissions}
  /\ groups = [g \in {adminGroupId} |-> [name |-> "Administrators"]]
  /\ group_roles = {<<adminGroupId, adminRoleId>>}
  /\ users = [u \in {adminUserId} |->
                [username |-> "admin", email |-> "joydaven@gmail.com"]]
  /\ user_groups = IF foreign_keys
                   THEN {<<adminUserId, adminGroupId>>}
                   ELSE {<<adminUserId, adminGroupId>>, <<2, adminGroupId>>}
  /\ sqlite_sequence = [users |-> 2, groups |-> 1, roles |-> 1,
                        modules |-> Len(seedModules),
                        permissions |-> Len(seedModules) * Len(actions)]

InitAfterDelete ==
  /\ foreign_keys \in BOOLEAN
  /\ seedAndDeletedUser
  /\ served = 0
  /\ req = NoRequest
  /\ res = NoResponse
  /\ calls = <<>>
  /\ boot = listening

SpecAfterDelete == InitAfterDelete /\ [][Next]_vars

(* ------------------------------------------------------------------ *)
(* C28                                                                 *)
(* ------------------------------------------------------------------ *)
\* user u holds some action on some module
holdsSomething(u) ==
  \/ \E M \in AnyModuleName, A \in validActions : checkPermission(u, M, A)
  \/ DOMAIN getUserPermissions(u) # {}

\* user u is a member of some group (existing or not)
isMember(u) == \E x \in user_groups : x[1] = u

\* C28: a user created by registration or by POST /users has no effective
\* permission (empty permission map, every check denied) from creation until
\* a link call adds that user to a group, also when users deleted earlier had
\* memberships: the new user never receives the id of an earlier user.  A
\* user who is in no group gets a permission by no request other than that
\* link call.
C28_NewUserHoldsNothing ==
  [][ handles =>
        /\ \A u \in DOMAIN users' \ DOMAIN users :
             /\ req'.route \in {"POST /users", "POST /register"}
             /\ u \notin 1..sqlite_sequence.users
             /\ (~ isMember(u))'
             /\ (~ holdsSomething(u))'
        /\ \A u \in DOMAIN users :
             (~ isMember(u) /\ (isMember(u) \/ holdsSomething(u))')
               => /\ req'.route = "POST /groups/:id/users"
                  /\ res'.status = 200
                  /\ u \in Range(req'.body.ids) ]_vars

\* alice was deleted and her membership of Administrators stayed behind; the
\* user created now is user 3, member of nothing, and holds nothing
C28_Witness ==
  /\ req.route \in {"POST /users", "POST /register"}
  /\ res.status = 201
  /\ 2 \notin DOMAIN users
  /\ <<2, adminGroupId>> \in user_groups
  /\ 3 \in DOMAIN users
  /\ ~ isMember(3)
  /\ ~ holdsSomething(3)

(* ------------------------------------------------------------------ *)
(* C29                                                                 *)
(* ------------------------------------------------------------------ *)
\* C29: a link call by a permitted caller succeeds whenever its owner exists
\* and every id of its request references an existing entity, also when the
\* request lists an existing id more than once: it is not rejected as not
\* found and leaves exactly one link per distinct id.
C29_LinkTakesIdsAsSet ==
  [][ ( /\ handles
        /\ req'.route \in linkRoutes
        /\ checkPermission(req'.caller, linkModule(req'.route), "update")
        /\ linkWellFormed
        /\ ~ linkMissing )
      => /\ res'.status = 200
         /\ res'.error \notin notFoundErrors
         /\ linkEffect(req'.route,
                       linkPairs(req'.route, req'.id, Range(req'.body.ids))) ]_vars

(* ------------------------------------------------------------------ *)
(* C30                                                                 *)
(* ------------------------------------------------------------------ *)
\* C30: a caller whom the resolver denies on a route's module and action
\* gets the same Forbidden response whatever the request and the store
\* contain (id valid or not, target existing or not, body valid or not) and
\* nothing is written: the permission check comes before id validation,
\* body validation and every existence or uniqueness check.
C30_DenialTellsNothing ==
  [][ handles =>
        \A g \in routeGates :
          (req'.route = g.route /\ ~ checkPermission(req'.caller, g.module, g.action))
            => /\ res' = Response(403, "Permission denied", {})
               /\ UNCHANGED tables ]_vars

\* a registered user without any group asked for a user by an id that is
\* not valid, or for one that does not exist, and was told Forbidden
C30_Witness ==
  /\ answered("GET /users/:id")
  /\ res = Response(403, "Permission denied", {})
  /\ req.caller \in DOMAIN users
  /\ ~ isMember(req.caller)
  /\ req.id \notin DOMAIN users

====
